---- MODULE Spec2Model ----
(***************************************************************************)
(* A model of shi.arrg (src/shi/arrg.py): the @arrg decorator, which fills *)
(* the parameters a caller did not pass from inherited extra keywords,     *)
(* declared defaults, the locals of the frames on the call stack, the      *)
(* globals of the decorated function and the globals of the frames on the  *)
(* call stack.                                                             *)
(*                                                                         *)
(* The Python call stack is a sequence of frames, innermost last.  A call  *)
(* of a decorated function pushes the frame of arrg's wrapper and, unless  *)
(* the arity check raises, the frame of the decorated function's body.     *)
(* A dict is a function whose domain is a finite set of names.             *)
(***************************************************************************)
EXTENDS Integers, Sequences, FiniteSets, TLC

VARIABLES
    stack,          \* the frames of the call stack, outermost first
    globals,        \* module name -> the module's global namespace (a dict)
    func_globals,   \* decorated function -> the globals captured by arrg(func)
    exc,            \* the TypeError in flight, or NoExc
    cli             \* the call of shi.cli or shi.dprint in progress and its
                    \* result, or NoCli

vars == <<stack, globals, func_globals, exc, cli>>

---------------------------------------------------------------------------
(* Values and dicts *)

\* Python's None, the value of a parameter found nowhere.
None == 0

\* The values callers pass explicitly.
Values == {1, 2}

\* The value each scope binds its names to: the three scope tiers hold
\* pairwise different values, and none of them is an explicit value or a
\* declared default, so the tier a bound value came from can be read off it.
TierValue == [caller_locals |-> 6, M1 |-> 4, M2 |-> 5]

EmptyDict == [n \in {} |-> None]

\* d1 | d2 and d1.update(d2): the keys of d2 override those of d1.
Merge(d1, d2) ==
    [n \in (DOMAIN d1) \cup (DOMAIN d2) |-> IF n \in DOMAIN d2 THEN d2[n] ELSE d1[n]]

Restrict(d, S) == [n \in (DOMAIN d) \cap S |-> d[n]]

\* key.startswith("_"): the private names of the model.
PrivateNames == {"_a"}

is_private(key) == key \in PrivateNames

\* Mutant: the private names are kept.
filter_privates_keep_all(d) == d

filter_privates(d) == Restrict(d, {n \in DOMAIN d : ~is_private(n)})

---------------------------------------------------------------------------
(* The decorated functions *)

Modules == {"M1", "M2"}

\* def foo(a, b)                  (test_arrg, test_too_many_positional_args)
\* def bar(k=3, **kwargs)         (test_var_kwargs)
Funcs == {"foo", "bar"}

\* def va(a, *args)                       (a variadic-positional parameter)
\* def po(a, /, b, *, c=3, **kwargs)      (test_positional_only)
\* def po2(k, a, /)                       (two positional-only parameters)
KindFuncs == {"va", "po", "po2"}

\* def caller_function(x=10, y=20)        (example_arrg.py)
\* def nested_function(x, y)              (example_arrg.py)
\* def foo1(y), def foo2(a, x, y)         (test_missing_args)
\* def priv(_a, a)                        (a parameter with a private name)
BodyFuncs == {"caller_function", "nested_function", "foo1", "foo2", "priv"}

Param(name, kind, has_default, default) ==
    [name |-> name, kind |-> kind, has_default |-> has_default, default |-> default]

sig(f) ==
    CASE f = "foo" -> << Param("a", "POSITIONAL_OR_KEYWORD", FALSE, None),
                         Param("b", "POSITIONAL_OR_KEYWORD", FALSE, None) >>
      [] f = "bar" -> << Param("k", "POSITIONAL_OR_KEYWORD", TRUE, 3),
                         Param("kwargs", "VAR_KEYWORD", FALSE, None) >>
      [] f = "va"  -> << Param("a", "POSITIONAL_OR_KEYWORD", FALSE, None),
                         Param("args", "VAR_POSITIONAL", FALSE, None) >>
      [] f = "po"  -> << Param("a", "POSITIONAL_ONLY", FALSE, None),
                         Param("b", "POSITIONAL_OR_KEYWORD", FALSE, None),
                         Param("c", "KEYWORD_ONLY", TRUE, 3),
                         Param("kwargs", "VAR_KEYWORD", FALSE, None) >>
      [] f = "po2" -> << Param("k", "POSITIONAL_ONLY", FALSE, None),
                         Param("a", "POSITIONAL_ONLY", FALSE, None) >>
      [] f = "caller_function" ->
                      << Param("x", "POSITIONAL_OR_KEYWORD", TRUE, 10),
                         Param("y", "POSITIONAL_OR_KEYWORD", TRUE, 20) >>
      [] f = "nested_function" ->
                      << Param("x", "POSITIONAL_OR_KEYWORD", FALSE, None),
                         Param("y", "POSITIONAL_OR_KEYWORD", FALSE, None) >>
      [] f = "foo1" -> << Param("y", "POSITIONAL_OR_KEYWORD", FALSE, None) >>
      [] f = "foo2" -> << Param("a", "POSITIONAL_OR_KEYWORD", FALSE, None),
                         Param("x", "POSITIONAL_OR_KEYWORD", FALSE, None),
                         Param("y", "POSITIONAL_OR_KEYWORD", FALSE, None) >>
      [] f = "priv" -> << Param("_a", "POSITIONAL_OR_KEYWORD", FALSE, None),
                         Param("a", "POSITIONAL_OR_KEYWORD", FALSE, None) >>

\* func.__globals__ is the namespace of the module that defines func.
func_module(f) == IF f = "foo" THEN "M1" ELSE "M2"

PositionalKinds == {"POSITIONAL_ONLY", "POSITIONAL_OR_KEYWORD"}
VariadicKinds == {"VAR_POSITIONAL", "VAR_KEYWORD"}

ParamNames(s) == {s[i].name : i \in 1..Len(s)}

ParamIndex(s, n) == CHOOSE i \in 1..Len(s) : s[i].name = n

arrg_has_kwarg_var(s) == \E i \in 1..Len(s) : s[i].kind = "VAR_KEYWORD"

has_var_positional(s) == \E i \in 1..Len(s) : s[i].kind = "VAR_POSITIONAL"

max_pos_args(s) == Cardinality({i \in 1..Len(s) : s[i].kind \in PositionalKinds})

---------------------------------------------------------------------------
(* Frames *)

\* The frame of an undecorated Python function of module m.
FunctionFrame(m, locals) == [kind |-> "function", module |-> m, f_locals |-> locals]

\* The frame of the top-level code of module m: its f_locals is the module's
\* global namespace itself.
ModuleFrame(m) == [kind |-> "module", module |-> m]

\* The frames of arrg's own helpers (get_locals, get_globals) and of the
\* wrapper that is calling them: they bind nothing a parameter may be
\* resolved from, and the wrapper's holds "__wrapped__".
HelperFrame == [kind |-> "helper", module |-> "arrg", f_locals |-> EmptyDict]
RunningWrapper == [kind |-> "wrapper", module |-> "arrg"]

f_locals(frame) ==
    IF frame.kind = "module" THEN globals[frame.module] ELSE frame.f_locals

f_globals(frame) ==
    IF frame.module \in Modules THEN globals[frame.module] ELSE EmptyDict

\* "__wrapped__" in frame.f_locals: wrapper() stores it there first thing.
is_wrapper_frame(frame) == frame.kind = "wrapper"

RECURSIVE Reverse(_)
Reverse(s) == IF s = <<>> THEN <<>> ELSE Append(Reverse(Tail(s)), Head(s))

\* The frames seen from inside a helper called by the running wrapper,
\* walking f_back: the helper, the wrapper, then the stack, innermost first.
Chain(stk) == <<HelperFrame, RunningWrapper>> \o Reverse(stk)

\* get_frames, from the frame of the helper that called it: the first
\* `depth` frames, walking outwards, that are not wrapper frames.
RECURSIVE get_frames(_, _)
get_frames(chain, depth) ==
    IF chain = <<>> \/ depth = 0 THEN <<>>
    ELSE IF is_wrapper_frame(Head(chain)) THEN get_frames(Tail(chain), depth)
    ELSE <<Head(chain)>> \o get_frames(Tail(chain), depth - 1)

\* Mutant: the frames are merged innermost first, so the outermost wins.
RECURSIVE MergeLocals_outermost_wins(_)
MergeLocals_outermost_wins(frames) ==
    IF frames = <<>> THEN EmptyDict
    ELSE Merge(filter_privates(f_locals(Head(frames))),
               MergeLocals_outermost_wins(Tail(frames)))

\* for frame in reversed(frames): all_locals.update(filter_privates(...)):
\* frames is innermost first, so the innermost frame is merged last.
RECURSIVE MergeLocals(_)
MergeLocals(frames) ==
    IF frames = <<>> THEN EmptyDict
    ELSE Merge(MergeLocals(Tail(frames)), filter_privates(f_locals(Head(frames))))

RECURSIVE MergeGlobals(_)
MergeGlobals(frames) ==
    IF frames = <<>> THEN EmptyDict
    ELSE Merge(MergeGlobals(Tail(frames)), filter_privates(f_globals(Head(frames))))

\* Mutant: the frame of the immediate caller is dropped with the helper's.
get_locals_skip_caller(stk, depth) ==
    MergeLocals(Tail(Tail(get_frames(Chain(stk), depth + 1))))

get_locals(stk, depth) == MergeLocals(Tail(get_frames(Chain(stk), depth + 1)))

get_globals(stk, depth) == MergeGlobals(Tail(get_frames(Chain(stk), depth + 1)))

\* The depth wrapper() passes to get_locals and get_globals.
StackDepth == 10

\* Mutant: the walk never finds a context.
get_arrg_context_none(stk) == EmptyDict

\* Mutant: the walk also finds the context of the call that last returned
\* into a frame, as if the dead wrapper's frame were still linked.
RECURSIVE get_arrg_context_sideways(_)
get_arrg_context_sideways(stk) ==
    IF stk = <<>> THEN EmptyDict
    ELSE IF stk[Len(stk)].kind = "wrapper" THEN stk[Len(stk)].extra_kwargs
    ELSE IF "returned" \in DOMAIN stk[Len(stk)] THEN stk[Len(stk)].returned.last.extra_kwargs
    ELSE get_arrg_context_sideways(SubSeq(stk, 1, Len(stk) - 1))

\* get_arrg_context: the extra_kwargs of the nearest frame that holds
\* "__arrg_context__" (a wrapper that has reached the call of its function),
\* or those of a new ArrgContext().
RECURSIVE get_arrg_context(_)
get_arrg_context(stk) ==
    IF stk = <<>> THEN EmptyDict
    ELSE IF stk[Len(stk)].kind = "wrapper" THEN stk[Len(stk)].extra_kwargs
    ELSE get_arrg_context(SubSeq(stk, 1, Len(stk) - 1))

---------------------------------------------------------------------------
(* arrg.wrapper *)

\* for param, arg in zip(sig.parameters.values(), args): the i-th argument
\* goes to the i-th declared parameter when that one is positional.
positional_args(s, args) ==
    LET bound == {i \in 1..Len(s) : i <= Len(args) /\ s[i].kind \in PositionalKinds}
    IN  [n \in {s[i].name : i \in bound} |-> args[ParamIndex(s, n)]]

\* Mutant: kwargs | parent_context.extra_kwargs, the inherited extras
\* overriding the caller's keywords.
merged_kwargs_parent_wins(parent_extra, kwargs) == Merge(kwargs, parent_extra)

\* Mutant: the inherited extras are not merged into this call's keywords,
\* so they are not published again.
merged_kwargs_own_only(parent_extra, kwargs) == kwargs

\* kwargs = parent_context.extra_kwargs | kwargs
merged_kwargs(parent_extra, kwargs) == Merge(parent_extra, kwargs)

\* for key, value in kwargs.items(): a key already set by a positional
\* argument is skipped, a key in sig.parameters is resolved.
keyword_args(s, resolved, kwargs) ==
    Merge(resolved, Restrict(kwargs, ParamNames(s) \ DOMAIN resolved))

\* Mutant: a function without a variadic-keyword parameter keeps no extras.
unmatched_kwargs_dropped(s, resolved, kwargs) ==
    IF arrg_has_kwarg_var(s)
    THEN Restrict(kwargs, (DOMAIN kwargs) \ ((DOMAIN resolved) \cup ParamNames(s)))
    ELSE EmptyDict

\* Mutant: a key already set by a positional argument becomes an extra.
unmatched_kwargs_keep_shadowed(s, resolved, kwargs) ==
    Restrict(kwargs, (DOMAIN kwargs) \ (ParamNames(s) \ DOMAIN resolved))

\* Mutant: a key that is resolved to a parameter is an extra as well.
unmatched_kwargs_keep_consumed(s, resolved, kwargs) ==
    Restrict(kwargs, (DOMAIN kwargs) \ DOMAIN resolved)

\* ... and any other key becomes an extra keyword.
unmatched_kwargs(s, resolved, kwargs) ==
    Restrict(kwargs, (DOMAIN kwargs) \ ((DOMAIN resolved) \cup ParamNames(s)))

\* Mutant: the call-stack locals are consulted before the default.
resolve_missing_locals_before_default(param, parent_extra, caller_locals, fglobals, caller_globals) ==
    IF param.name \in DOMAIN parent_extra THEN parent_extra[param.name]
    ELSE IF param.name \in DOMAIN caller_locals THEN caller_locals[param.name]
    ELSE IF param.has_default THEN param.default
    ELSE IF param.name \in DOMAIN fglobals THEN fglobals[param.name]
    ELSE IF param.name \in DOMAIN caller_globals THEN caller_globals[param.name]
    ELSE None

\* Mutant: the function's globals are consulted before the call-stack locals.
resolve_missing_globals_first(param, parent_extra, caller_locals, fglobals, caller_globals) ==
    IF param.name \in DOMAIN parent_extra THEN parent_extra[param.name]
    ELSE IF param.has_default THEN param.default
    ELSE IF param.name \in DOMAIN fglobals THEN fglobals[param.name]
    ELSE IF param.name \in DOMAIN caller_locals THEN caller_locals[param.name]
    ELSE IF param.name \in DOMAIN caller_globals THEN caller_globals[param.name]
    ELSE None

\* Mutant: the call-stack globals are consulted before the function's.
resolve_missing_caller_globals_first(param, parent_extra, caller_locals, fglobals, caller_globals) ==
    IF param.name \in DOMAIN parent_extra THEN parent_extra[param.name]
    ELSE IF param.has_default THEN param.default
    ELSE IF param.name \in DOMAIN caller_locals THEN caller_locals[param.name]
    ELSE IF param.name \in DOMAIN caller_globals THEN caller_globals[param.name]
    ELSE IF param.name \in DOMAIN fglobals THEN fglobals[param.name]
    ELSE None

\* Steps 3 to 8 for one parameter that is still missing.
resolve_missing(param, parent_extra, caller_locals, fglobals, caller_globals) ==
    IF param.name \in DOMAIN parent_extra THEN parent_extra[param.name]
    ELSE IF param.has_default THEN param.default
    ELSE IF param.name \in DOMAIN caller_locals THEN caller_locals[param.name]
    ELSE IF param.name \in DOMAIN fglobals THEN fglobals[param.name]
    ELSE IF param.name \in DOMAIN caller_globals THEN caller_globals[param.name]
    ELSE None

\* Mutant: a parameter found nowhere is left out of resolved_args instead
\* of being set to None.
fill_missing_found_only(s, resolved, parent_extra, caller_locals, fglobals, caller_globals) ==
    LET missing == {i \in 1..Len(s) :
                       /\ s[i].name \notin DOMAIN resolved
                       /\ s[i].kind \notin VariadicKinds
                       /\ \/ s[i].has_default
                          \/ s[i].name \in (DOMAIN parent_extra) \cup (DOMAIN caller_locals)
                                           \cup (DOMAIN fglobals) \cup (DOMAIN caller_globals)}
        filled  == [n \in {s[i].name : i \in missing} |->
                       resolve_missing(s[ParamIndex(s, n)], parent_extra,
                                       caller_locals, fglobals, caller_globals)]
    IN  Merge(resolved, filled)

\* for param_name, param in sig.parameters.items(): every parameter that is
\* neither resolved nor variadic is filled in.
fill_missing(s, resolved, parent_extra, caller_locals, fglobals, caller_globals) ==
    LET missing == {i \in 1..Len(s) : /\ s[i].name \notin DOMAIN resolved
                                      /\ s[i].kind \notin VariadicKinds}
        filled  == [n \in {s[i].name : i \in missing} |->
                       resolve_missing(s[ParamIndex(s, n)], parent_extra,
                                       caller_locals, fglobals, caller_globals)]
    IN  Merge(resolved, filled)

\* The positional-only parameters, in declaration order.
RECURSIVE pos_only_params(_)
pos_only_params(s) ==
    IF s = <<>> THEN <<>>
    ELSE IF Head(s).kind = "POSITIONAL_ONLY"
         THEN <<Head(s).name>> \o pos_only_params(Tail(s))
         ELSE pos_only_params(Tail(s))

\* Mutant: the positional-only values are passed in the reverse order.
pos_only_values_reversed(s, resolved) ==
    [i \in 1..Len(pos_only_params(s)) |->
        resolved[pos_only_params(s)[Len(pos_only_params(s)) + 1 - i]]]

\* pos_only_values.append(resolved_args[param.name]); del resolved_args[...]
pos_only_values(s, resolved) ==
    [i \in 1..Len(pos_only_params(s)) |-> resolved[pos_only_params(s)[i]]]

without_pos_only(s, resolved) ==
    Restrict(resolved, (DOMAIN resolved) \ {pos_only_params(s)[i] : i \in 1..Len(pos_only_params(s))})

\* Mutant: the extras are passed to every function.
call_kwargs_always(s, resolved, extra) == Merge(resolved, extra)

\* if arrg_has_kwarg_var: resolved_args.update(extra_kwargs)
call_kwargs(s, resolved, extra) ==
    IF arrg_has_kwarg_var(s) THEN Merge(resolved, extra) ELSE resolved

\* Mutant: the arguments are counted against all declared parameters.
too_many_positional_all_params(s, args) == Len(args) > Len(s)

\* len(args) > max_pos_args
too_many_positional(s, args) == Len(args) > max_pos_args(s)

\* The body of wrapper() up to the call of func: what it raises or what it
\* calls func with, and the locals its frame then holds.
wrapper(f, args, kwargs_in, caller_locals, caller_globals, parent_extra, fglobals) ==
    LET s         == sig(f)
        kwargs    == merged_kwargs(parent_extra, kwargs_in)
        by_pos    == positional_args(s, args)
        by_key    == keyword_args(s, by_pos, kwargs)
        extra     == unmatched_kwargs(s, by_pos, kwargs)
        resolved  == fill_missing(s, by_key, parent_extra, caller_locals,
                                  fglobals, caller_globals)
    IN  [ raises          |-> too_many_positional(s, args),
          kind            |-> "wrapper",
          module          |-> "arrg",
          func            |-> f,
          args            |-> args,
          kwargs_in       |-> kwargs_in,
          caller_locals   |-> caller_locals,
          caller_globals  |-> caller_globals,
          parent_extra    |-> parent_extra,
          func_globals    |-> fglobals,
          extra_kwargs    |-> extra,
          pos_only_values |-> pos_only_values(s, resolved),
          resolved_args   |-> call_kwargs(s, without_pos_only(s, resolved), extra) ]

---------------------------------------------------------------------------
(* The call of func with pos_only_values and resolved_args: Python's binding *)

NamedParams(s) ==
    {s[i].name : i \in {j \in 1..Len(s) : s[j].kind \in {"POSITIONAL_OR_KEYWORD", "KEYWORD_ONLY"}}}

\* A keyword that names no parameter bindable by name is an unexpected
\* keyword unless the function declares a variadic-keyword parameter; a
\* parameter bindable by
\* name that has no default and gets no value is a missing argument.
call_accepted(s, pos, kw) ==
    /\ Len(pos) = Len(pos_only_params(s))
    /\ arrg_has_kwarg_var(s) \/ (DOMAIN kw) \subseteq NamedParams(s)
    /\ \A i \in 1..Len(s) :
          (s[i].name \in NamedParams(s) /\ ~s[i].has_default) => s[i].name \in DOMAIN kw

\* func() missing a required argument: a parameter bindable by name, without
\* a default, that resolved_args does not hold.
missing_arguments(s, kw) ==
    \E i \in 1..Len(s) :
        s[i].name \in NamedParams(s) /\ ~s[i].has_default /\ s[i].name \notin DOMAIN kw

\* The locals of the function's frame when its body starts.
bound_locals(s, pos, kw) ==
    LET po       == pos_only_params(s)
        by_pos   == [n \in {po[i] : i \in 1..Len(po)} |-> pos[CHOOSE j \in 1..Len(po) : po[j] = n]]
        by_name  == Restrict(kw, NamedParams(s))
        defaults == [n \in NamedParams(s) \ DOMAIN kw |-> s[ParamIndex(s, n)].default]
    IN  Merge(Merge(by_pos, by_name), defaults)

\* What the function's variadic-keyword parameter holds.
bound_var_kwargs(s, kw) == Restrict(kw, (DOMAIN kw) \ NamedParams(s))

FuncFrame(f, pos, kw) ==
    [ kind       |-> "func",
      func       |-> f,
      module     |-> func_module(f),
      f_locals   |-> bound_locals(sig(f), pos, kw),
      var_kwargs |-> bound_var_kwargs(sig(f), kw) ]

---------------------------------------------------------------------------
(* The state machine *)

\* The names the scopes of a scenario bind.
ScopeNames == {"a", "k", "_a"}

\* The keywords callers pass (a, which bar does not declare, and k, which
\* foo does not declare), and the dicts of keywords of one call.
KwNames == {"a", "k"}
KwDicts == {EmptyDict} \cup {n :> v : n \in KwNames, v \in Values}

\* The positional arguments of a call: its first n of 1, 2, 1, 2, ...
ArgSeq(n) == [i \in 1..n |-> IF i % 2 = 1 THEN 1 ELSE 2]

\* The most positional arguments a call passes, and the deepest nesting of
\* decorated calls.
MaxArgs == 3
MaxDepth == 2

NoExc == [type |-> "none"]

\* No call of shi.cli is in progress.
NoCli == [op |-> "none"]

\* A TypeError: why it was raised, the counts its message reports, and the
\* call that raised it (func.__name__ and the args of the wrapper's frame,
\* which the traceback holds).
TypeError(reason, f, max, args) ==
    [type |-> "TypeError", reason |-> reason, func |-> f,
     max_pos_args |-> max, given |-> Len(args), args |-> args]

\* A scope of a scenario binds all of ScopeNames, to the value of its tier,
\* or nothing.
ScopeDicts(v) == {EmptyDict, [n \in ScopeNames |-> v]}

\* arrg(func): func_globals = filter_privates(func.__globals__), once, when
\* the function is decorated.
decorated_globals(f) == filter_privates(globals[func_module(f)])

\* Modules imported and their functions decorated; a function of module M2
\* is running and has called nothing yet.
Init ==
    /\ globals \in {g \in [Modules -> UNION {ScopeDicts(TierValue[m]) : m \in Modules}] :
                       \A m \in Modules : g[m] \in ScopeDicts(TierValue[m])}
    /\ func_globals = [f \in Funcs |-> decorated_globals(f)]
    /\ \E locals \in ScopeDicts(TierValue.caller_locals) :
          stack = <<FunctionFrame("M2", locals)>>
    /\ exc = NoExc
    /\ cli = NoCli

\* The decorated calls in progress.
Depth(stk) == Cardinality({i \in 1..Len(stk) : stk[i].kind = "wrapper"})

\* A call f(*args, **kw) of a decorated function from the innermost frame:
\* wrapper() runs up to the call of func, which starts with its parameters
\* bound, or a TypeError is raised into the caller.
Call(f, args, kw) ==
    /\ exc = NoExc
    /\ f \in DOMAIN func_globals
    /\ LET w == wrapper(f, args, kw, get_locals(stack, StackDepth),
                        get_globals(stack, StackDepth), get_arrg_context(stack),
                        func_globals[f])
       IN  IF w.raises
           THEN /\ exc' = TypeError("too_many_positional", f, max_pos_args(sig(f)), args)
                /\ UNCHANGED stack
           ELSE IF ~call_accepted(sig(f), w.pos_only_values, w.resolved_args)
           THEN /\ exc' = TypeError(IF missing_arguments(sig(f), w.resolved_args)
                                    THEN "missing_argument" ELSE "unexpected_keyword",
                                    f, max_pos_args(sig(f)), args)
                /\ UNCHANGED stack
           ELSE /\ stack' = stack \o <<w, FuncFrame(f, w.pos_only_values, w.resolved_args)>>
                /\ UNCHANGED exc
    /\ UNCHANGED <<globals, func_globals, cli>>

\* The innermost decorated function returns, and its wrapper with it.
Return ==
    /\ exc = NoExc
    /\ stack[Len(stack)].kind = "func"
    /\ stack' = SubSeq(stack, 1, Len(stack) - 2)
    /\ UNCHANGED <<globals, func_globals, exc, cli>>

\* The innermost frame handles the TypeError (assertRaises).
Catch ==
    /\ exc # NoExc
    /\ exc' = NoExc
    /\ UNCHANGED <<stack, globals, func_globals, cli>>

\* The innermost decorated function does not handle it: the error unwinds
\* its frame and its wrapper's.
Propagate ==
    /\ exc # NoExc
    /\ stack[Len(stack)].kind = "func"
    /\ stack' = SubSeq(stack, 1, Len(stack) - 2)
    /\ UNCHANGED <<globals, func_globals, exc, cli>>

\* @arrg applied to f (again).
Decorate(f) ==
    /\ exc = NoExc
    /\ func_globals' = Merge(func_globals, f :> decorated_globals(f))
    /\ UNCHANGED <<stack, globals, exc, cli>>

\* A global of module m is bound or rebound.
SetGlobal(m, n, v) ==
    /\ exc = NoExc
    /\ globals' = [globals EXCEPT ![m] = Merge(@, n :> v)]
    /\ UNCHANGED <<stack, func_globals, exc, cli>>

Next ==
    \/ \E f \in Funcs, n \in 0..MaxArgs, kw \in KwDicts :
          Depth(stack) < MaxDepth /\ Call(f, ArgSeq(n), kw)
    \/ Return
    \/ Catch
    \/ Propagate

Spec == Init /\ [][Next]_vars

---------------------------------------------------------------------------
(* The calls in progress, as the claims speak of them *)

\* The stack positions of the wrapper frames: one per decorated call.
Calls == {i \in 1..Len(stack) : stack[i].kind = "wrapper"}

\* The parameters of call i that are not variadic.
DeclaredParams(i) ==
    {n \in ParamNames(sig(stack[i].func)) :
        sig(stack[i].func)[ParamIndex(sig(stack[i].func), n)].kind \notin VariadicKinds}

ParamOf(i, n) == sig(stack[i].func)[ParamIndex(sig(stack[i].func), n)]

\* What the body of call i started with: its frame is pushed with the
\* wrapper's.
Received(i) == stack[i + 1].f_locals
ReceivedVarKwargs(i) == stack[i + 1].var_kwargs

PassedPositionally(i, n) ==
    /\ ParamIndex(sig(stack[i].func), n) <= Len(stack[i].args)
    /\ ParamOf(i, n).kind \in PositionalKinds

PassedByKeyword(i, n) == n \in DOMAIN stack[i].kwargs_in

PassedExplicitly(i, n) == PassedPositionally(i, n) \/ PassedByKeyword(i, n)

\* The value the caller supplied; the positional one when it gave both.
Supplied(i, n) ==
    IF PassedPositionally(i, n)
    THEN stack[i].args[ParamIndex(sig(stack[i].func), n)]
    ELSE stack[i].kwargs_in[n]

\* The nearest decorated call enclosing call i (0: none), and the extras it
\* published.
Enclosing(i) ==
    IF {j \in Calls : j < i} = {} THEN 0
    ELSE CHOOSE j \in Calls : j < i /\ \A l \in Calls : l < i => l <= j

Inherited(i) == IF Enclosing(i) = 0 THEN EmptyDict ELSE stack[Enclosing(i)].extra_kwargs

\* Parameter n of call i got no explicit value, no inherited extra and has
\* no default: it is looked up in the scopes.
LookedUp(i, n) ==
    /\ ~PassedExplicitly(i, n)
    /\ n \notin DOMAIN Inherited(i)
    /\ ~ParamOf(i, n).has_default

---------------------------------------------------------------------------
(* Claims *)

\* C1: a parameter passed positionally or by keyword reaches the function
\* with exactly the supplied value, whatever the inherited extras, the
\* default, the call-stack locals and the globals bind under its name.
C1_ExplicitWins ==
    \A i \in Calls : \A n \in DeclaredParams(i) :
        PassedExplicitly(i, n) => Received(i)[n] = Supplied(i, n)

\* A call of foo with a passed by keyword while the inherited extras, the
\* call-stack locals, foo's globals and the call-stack globals all bind a
\* to other values.
C1_Witness ==
    \E i \in Calls :
        /\ stack[i].func = "foo"
        /\ PassedByKeyword(i, "a") /\ ~PassedPositionally(i, "a")
        /\ "a" \in DOMAIN Inherited(i) /\ Inherited(i)["a"] # Supplied(i, "a")
        /\ "a" \in DOMAIN stack[i].caller_locals
        /\ stack[i].caller_locals["a"] # Supplied(i, "a")
        /\ "a" \in DOMAIN stack[i].func_globals
        /\ "a" \in DOMAIN stack[i].caller_globals
        /\ Received(i)["a"] = Supplied(i, "a")

\* C2: a parameter not passed explicitly whose name is among the extras
\* inherited from the nearest enclosing decorated call is bound to the
\* inherited value, default or not, whatever the scopes bind.
C2_InheritedExtraBinds ==
    \A i \in Calls : \A n \in DeclaredParams(i) :
        (~PassedExplicitly(i, n) /\ n \in DOMAIN Inherited(i))
            => Received(i)[n] = Inherited(i)[n]

\* bar (k has the default 3) called without k inside a call that published
\* the extra k, with the call-stack locals binding k to something else.
C2_Witness ==
    \E i \in Calls :
        /\ stack[i].func = "bar"
        /\ ~PassedExplicitly(i, "k")
        /\ "k" \in DOMAIN Inherited(i)
        /\ ParamOf(i, "k").has_default /\ ParamOf(i, "k").default # Inherited(i)["k"]
        /\ "k" \in DOMAIN stack[i].caller_locals
        /\ stack[i].caller_locals["k"] # Inherited(i)["k"]
        /\ "k" \in DOMAIN stack[i].caller_globals
        /\ Received(i)["k"] = Inherited(i)["k"]

\* C3: a parameter with a default that is neither passed explicitly nor
\* among the inherited extras is bound to the default, whatever the
\* call-stack locals, the function's globals and the call-stack globals bind.
C3_DefaultBeatsScopes ==
    \A i \in Calls : \A n \in DeclaredParams(i) :
        (/\ ParamOf(i, n).has_default
         /\ ~PassedExplicitly(i, n)
         /\ n \notin DOMAIN Inherited(i))
            => Received(i)[n] = ParamOf(i, n).default

\* bar called without k and without an inherited k while all three scopes
\* bind k.
C3_Witness ==
    \E i \in Calls :
        /\ stack[i].func = "bar"
        /\ ~PassedExplicitly(i, "k") /\ "k" \notin DOMAIN Inherited(i)
        /\ "k" \in DOMAIN stack[i].caller_locals
        /\ "k" \in DOMAIN stack[i].func_globals
        /\ "k" \in DOMAIN stack[i].caller_globals
        /\ stack[i].caller_locals["k"] # ParamOf(i, "k").default
        /\ Received(i)["k"] = ParamOf(i, "k").default

\* Of two scopes that bind n to different values, hi outranks lo at call i:
\* with no scope above hi binding n, the parameter is bound to hi's value.
Outranks(i, n, above, hi, lo) ==
    (/\ LookedUp(i, n)
     /\ \A t \in above : n \notin DOMAIN t
     /\ n \in DOMAIN hi /\ n \in DOMAIN lo /\ hi[n] # lo[n])
        => Received(i)[n] = hi[n]

\* C4 as the specification states it: the function's own globals outrank
\* the caller's locals, which outrank the caller's globals.
C4_SpecTierOrder ==
    \A i \in Calls : \A n \in DeclaredParams(i) :
        LET L  == stack[i].caller_locals
            FG == stack[i].func_globals
            CG == stack[i].caller_globals
        IN  /\ Outranks(i, n, {}, FG, L)
            /\ Outranks(i, n, {}, FG, CG)
            /\ Outranks(i, n, {FG}, L, CG)

\* C4 amended: for a parameter with no explicit value, no inherited extra
\* and no default, the call-stack locals outrank the function's globals,
\* which outrank the call-stack globals; of two tiers binding the name to
\* different values the higher one's value is bound, for every pair.
C4_CodeTierOrder ==
    \A i \in Calls : \A n \in DeclaredParams(i) :
        LET L  == stack[i].caller_locals
            FG == stack[i].func_globals
            CG == stack[i].caller_globals
        IN  /\ Outranks(i, n, {}, L, FG)
            /\ Outranks(i, n, {}, L, CG)
            /\ Outranks(i, n, {L}, FG, CG)

\* foo called with a looked up while the call-stack locals and foo's
\* globals bind a to different values: the locals' value is bound.
C4_Witness ==
    \E i \in Calls :
        /\ stack[i].func = "foo" /\ LookedUp(i, "a")
        /\ "a" \in DOMAIN stack[i].caller_locals
        /\ "a" \in DOMAIN stack[i].func_globals
        /\ stack[i].caller_locals["a"] # stack[i].func_globals["a"]
        /\ Received(i)["a"] = stack[i].caller_locals["a"]

\* C5: a looked-up parameter takes the value of the first of call-stack
\* locals, the function's globals (as arrg holds them) and call-stack
\* globals that contains its name, and None only when none of them does.
C5_DocstringOrder ==
    \A i \in Calls : \A n \in DeclaredParams(i) :
        LookedUp(i, n) =>
            LET L  == stack[i].caller_locals
                FG == stack[i].func_globals
                CG == stack[i].caller_globals
            IN  CASE n \in DOMAIN L  -> Received(i)[n] = L[n]
                  [] n \notin DOMAIN L /\ n \in DOMAIN FG -> Received(i)[n] = FG[n]
                  [] n \notin DOMAIN L /\ n \notin DOMAIN FG /\ n \in DOMAIN CG
                        -> Received(i)[n] = CG[n]
                  [] OTHER -> Received(i)[n] = None

\* foo called with a looked up, absent from the call-stack locals, and
\* bound to different values by foo's globals and the call-stack globals.
C5_Witness ==
    \E i \in Calls :
        /\ stack[i].func = "foo" /\ LookedUp(i, "a")
        /\ "a" \notin DOMAIN stack[i].caller_locals
        /\ "a" \in DOMAIN stack[i].func_globals
        /\ "a" \in DOMAIN stack[i].caller_globals
        /\ stack[i].func_globals["a"] # stack[i].caller_globals["a"]
        /\ Received(i)["a"] = stack[i].func_globals["a"]

---------------------------------------------------------------------------
(* Decoration and the rebinding of globals *)

\* Modules imported, nothing decorated yet; the code running is a function
\* of either module or the top-level code of either module.
InitGlobals ==
    /\ globals \in {g \in [Modules -> UNION {ScopeDicts(TierValue[m]) : m \in Modules}] :
                       \A m \in Modules : g[m] \in ScopeDicts(TierValue[m])}
    /\ func_globals = [f \in {} |-> EmptyDict]
    /\ \/ \E locals \in ScopeDicts(TierValue.caller_locals) :
             stack = <<FunctionFrame("M2", locals)>>
       \/ \E m \in Modules : stack = <<ModuleFrame(m)>>
    /\ exc = NoExc
    /\ cli = NoCli

NextGlobals ==
    \/ Decorate("foo")
    \/ \E m \in Modules, v \in Values : SetGlobal(m, "a", v)
    \/ Depth(stack) < MaxDepth /\ Call("foo", <<>>, EmptyDict)
    \/ Return

SpecGlobals == InitGlobals /\ [][NextGlobals]_vars

\* The innermost call, when the innermost frame is a function body.
TopCall == Len(stack) - 1

\* The globals of the function of call i as they are now.
LiveFuncGlobals(i) == filter_privates(globals[func_module(stack[i].func)])

\* The innermost call bound every parameter it resolved from its function's
\* global scope to the value that global has now.
BoundToLiveGlobal ==
    \A n \in DeclaredParams(TopCall) :
        (/\ LookedUp(TopCall, n)
         /\ n \notin DOMAIN stack[TopCall].caller_locals
         /\ n \in DOMAIN LiveFuncGlobals(TopCall))
            => Received(TopCall)[n] = LiveFuncGlobals(TopCall)[n]

\* C6: a parameter resolved from the wrapped function's global scope is
\* bound to the value the global has at the time of the call, also when the
\* global was rebound or first defined after decoration.
C6_GlobalAtCallTime ==
    [][Len(stack') = Len(stack) + 2 => BoundToLiveGlobal']_vars

---------------------------------------------------------------------------
(* Extras *)

\* Keyword n was supplied to call i and names no parameter of its function.
SuppliedExtra(i, n) ==
    n \in DOMAIN stack[i].kwargs_in /\ n \notin ParamNames(sig(stack[i].func))

\* C7: a keyword supplied to call A that matches no parameter of A is bound
\* to the parameter of that name of a call B made from A's body, unless B
\* is passed that parameter explicitly, and then B's explicit value is bound.
C7_ExtraReachesNestedCall ==
    \A b \in Calls : \A n \in DeclaredParams(b) :
        (Enclosing(b) # 0 /\ SuppliedExtra(Enclosing(b), n))
            => Received(b)[n] = IF PassedExplicitly(b, n)
                                THEN Supplied(b, n)
                                ELSE stack[Enclosing(b)].kwargs_in[n]

\* foo(k=v) whose body calls bar() without k, the call-stack locals binding
\* k to something else: bar's k is v.
C7_Witness ==
    \E b \in Calls :
        /\ Enclosing(b) # 0
        /\ stack[Enclosing(b)].func = "foo" /\ SuppliedExtra(Enclosing(b), "k")
        /\ stack[b].func = "bar" /\ ~PassedExplicitly(b, "k")
        /\ "k" \in DOMAIN stack[b].caller_locals
        /\ stack[b].caller_locals["k"] # stack[Enclosing(b)].kwargs_in["k"]
        /\ Received(b)["k"] = stack[Enclosing(b)].kwargs_in["k"]

\* C9: the keywords that match no declared parameter are passed into the
\* function's variadic-keyword parameter when it declares one; when it
\* declares none the function is called with its declared parameters only,
\* and no call ends in an unexpected-keyword error.
C9_ExtrasIntoVarKwargs ==
    /\ \A i \in Calls :
          IF arrg_has_kwarg_var(sig(stack[i].func))
          THEN \A n \in DOMAIN stack[i].kwargs_in :
                  n \notin ParamNames(sig(stack[i].func))
                      => /\ n \in DOMAIN ReceivedVarKwargs(i)
                         /\ ReceivedVarKwargs(i)[n] = stack[i].kwargs_in[n]
          ELSE /\ DOMAIN stack[i].resolved_args \subseteq NamedParams(sig(stack[i].func))
               /\ DOMAIN Received(i) = DeclaredParams(i)
               /\ ReceivedVarKwargs(i) = EmptyDict
    /\ exc # NoExc => exc.reason # "unexpected_keyword"

\* foo(k=v), which declares neither k nor a variadic-keyword parameter, is
\* running, and from its body bar(a=w) with the variadic-keyword parameter
\* holding a.
C9_Witness ==
    \E i, j \in Calls :
        /\ stack[i].func = "foo" /\ SuppliedExtra(i, "k")
        /\ "k" \notin DOMAIN Received(i)
        /\ stack[j].func = "bar" /\ SuppliedExtra(j, "a")
        /\ ReceivedVarKwargs(j)["a"] = stack[j].kwargs_in["a"]

\* The number of positional-only and positional-or-keyword parameters.
PositionalCapacity(f) ==
    Cardinality({i \in 1..Len(sig(f)) :
        sig(f)[i].kind \in {"POSITIONAL_ONLY", "POSITIONAL_OR_KEYWORD"}})

\* A step is a call of a decorated function when it raises or pushes the
\* frames of the wrapper and of the function; these are the function called
\* and the positional arguments passed.
IsCallStep == exc = NoExc /\ (exc' # NoExc \/ Len(stack') = Len(stack) + 2)
CalledFunc == IF exc' # NoExc THEN exc'.func ELSE stack'[Len(stack) + 1].func
CalledArgs == IF exc' # NoExc THEN exc'.args ELSE stack'[Len(stack) + 1].args

\* C10: a call of a function without a variadic-positional parameter with
\* more positional arguments than it has positional-only and
\* positional-or-keyword parameters fails with a TypeError that reports
\* that maximum and the number given, and the function's body does not run.
C10_TooManyPositional ==
    [][(/\ IsCallStep
        /\ ~has_var_positional(sig(CalledFunc))
        /\ Len(CalledArgs) > PositionalCapacity(CalledFunc))
           => /\ exc'.type = "TypeError"
              /\ exc'.reason = "too_many_positional"
              /\ exc'.max_pos_args = PositionalCapacity(CalledFunc)
              /\ exc'.given = Len(CalledArgs)
              /\ stack' = stack]_vars

\* foo(a, b) called with three positional arguments: at most 2, 3 given.
C10_Witness ==
    /\ exc # NoExc
    /\ exc.reason = "too_many_positional" /\ exc.func = "foo"
    /\ Len(exc.args) = 3 /\ exc.max_pos_args = 2 /\ exc.given = 3

---------------------------------------------------------------------------
(* Chains of nested calls *)

\* The deepest nesting of the chains.
ChainDepth == 3

\* As Init; the calls pass keywords only.
NextChain ==
    \/ \E f \in Funcs, kw \in KwDicts :
          Depth(stack) < ChainDepth /\ Call(f, <<>>, kw)
    \/ Return

SpecChain == Init /\ [][NextChain]_vars

\* Calls a, b, c are nested directly in one another.
IsChain(a, b, c) == a = Enclosing(b) /\ b = Enclosing(c) /\ a # 0

---------------------------------------------------------------------------
(* Parameter kinds: variadic-positional, positional-only, keyword-only *)

\* The keywords passed to va, po and po2: a (positional-only in po and
\* po2) and k (positional-only in po2, declared by neither va nor po).
KindKwDicts == {EmptyDict} \cup {n :> 1 : n \in {"a", "k"}}

\* As Init, with va, po and po2 decorated.
InitKinds ==
    /\ globals \in {g \in [Modules -> UNION {ScopeDicts(TierValue[m]) : m \in Modules}] :
                       \A m \in Modules : g[m] \in ScopeDicts(TierValue[m])}
    /\ func_globals = [f \in KindFuncs |-> decorated_globals(f)]
    /\ \E locals \in ScopeDicts(TierValue.caller_locals) :
          stack = <<FunctionFrame("M2", locals)>>
    /\ exc = NoExc
    /\ cli = NoCli

NextKinds ==
    \/ \E f \in KindFuncs, n \in 0..MaxArgs, kw \in KindKwDicts :
          Depth(stack) < MaxDepth /\ Call(f, ArgSeq(n), kw)
    \/ Return
    \/ Catch
    \/ Propagate

SpecKinds == InitKinds /\ [][NextKinds]_vars

\* C11: a call of a function that declares a variadic-positional parameter
\* never fails the arity check, however many positional arguments it passes.
C11_VarPositionalNoArityError ==
    (exc # NoExc /\ exc.reason = "too_many_positional")
        => ~has_var_positional(sig(exc.func))

\* The positional-only and positional-or-keyword parameters, in declaration
\* order (Python declares the positional-only ones first).
RECURSIVE PositionalParams(_)
PositionalParams(s) ==
    IF s = <<>> THEN <<>>
    ELSE IF Head(s).kind \in PositionalKinds
         THEN <<Head(s).name>> \o PositionalParams(Tail(s))
         ELSE PositionalParams(Tail(s))

\* The value the resolution order gives parameter n of call i.
ResolvedValue(i, n) ==
    IF PassedExplicitly(i, n) THEN Supplied(i, n)
    ELSE IF n \in DOMAIN Inherited(i) THEN Inherited(i)[n]
    ELSE IF ParamOf(i, n).has_default THEN ParamOf(i, n).default
    ELSE IF n \in DOMAIN stack[i].caller_locals THEN stack[i].caller_locals[n]
    ELSE IF n \in DOMAIN stack[i].func_globals THEN stack[i].func_globals[n]
    ELSE IF n \in DOMAIN stack[i].caller_globals THEN stack[i].caller_globals[n]
    ELSE None

PosOnlyNames(i) ==
    {pos_only_params(sig(stack[i].func))[j] : j \in 1..Len(pos_only_params(sig(stack[i].func)))}

\* C17: the j-th positional argument is bound to the j-th of the
\* positional-only and positional-or-keyword parameters in declaration
\* order; the function is called with the values of its positional-only
\* parameters, explicit or resolved, as positional arguments in declaration
\* order, and with every other declared parameter as a keyword.
C17_PositionalOnlyPassedPositionally ==
    \A i \in Calls :
        LET s  == sig(stack[i].func)
            po == pos_only_params(s)
        IN  /\ \A j \in 1..Len(stack[i].args) :
                  Received(i)[PositionalParams(s)[j]] = stack[i].args[j]
            /\ Len(stack[i].pos_only_values) = Len(po)
            /\ \A j \in 1..Len(po) :
                  stack[i].pos_only_values[j] = ResolvedValue(i, po[j])
            /\ PosOnlyNames(i) \cap DOMAIN stack[i].resolved_args = {}
            /\ \A n \in DeclaredParams(i) \ PosOnlyNames(i) :
                  /\ n \in DOMAIN stack[i].resolved_args
                  /\ stack[i].resolved_args[n] = ResolvedValue(i, n)

\* po2(1), k passed and a taken from the call-stack locals, is called with
\* (1, a) positionally; from its body po(1, 2) is called with a positionally
\* and b, c by name.
C17_Witness ==
    \E i, j \in Calls :
        /\ i = Enclosing(j)
        /\ stack[i].func = "po2" /\ stack[i].args = <<1>>
        /\ ~PassedExplicitly(i, "a") /\ "a" \in DOMAIN stack[i].caller_locals
        /\ stack[i].pos_only_values = <<1, stack[i].caller_locals["a"]>>
        /\ stack[i].pos_only_values[2] # 1
        /\ stack[j].func = "po" /\ stack[j].args = <<1, 2>>
        /\ stack[j].pos_only_values = <<1>>
        /\ DOMAIN stack[j].resolved_args = {"b", "c"}
        /\ stack[j].resolved_args["b"] = 2

---------------------------------------------------------------------------
(* Parameters found nowhere *)

\* Parameter n of call i is found in no scope tier.
InNoScope(i, n) ==
    /\ n \notin DOMAIN stack[i].caller_locals
    /\ n \notin DOMAIN stack[i].func_globals
    /\ n \notin DOMAIN stack[i].caller_globals

\* C12: the function of every call starts with every declared non-variadic
\* parameter bound; a parameter with no explicit value, no inherited extra,
\* no default and no match in any scope tier is bound to None, and no call
\* fails with a missing-argument error.
C12_UnresolvedIsNone ==
    /\ \A i \in Calls :
          /\ DOMAIN Received(i) = DeclaredParams(i)
          /\ \A n \in DeclaredParams(i) :
                (LookedUp(i, n) /\ InNoScope(i, n)) => Received(i)[n] = None
    /\ exc # NoExc => exc.reason # "missing_argument"

\* foo() called where no scope binds a or b: both are None and the body runs.
C12_Witness ==
    \E i \in Calls :
        /\ stack[i].func = "foo"
        /\ LookedUp(i, "a") /\ InNoScope(i, "a")
        /\ LookedUp(i, "b") /\ InNoScope(i, "b")
        /\ Received(i) = [n \in {"a", "b"} |-> None]

---------------------------------------------------------------------------
(* Function bodies: the locals a body assigns and the calls it makes *)

\* The calls the bodies make: caller_function() and caller_function(y=2000)
\* of example_arrg.py, foo1() and foo2() of test_missing_args, and calls
\* that pass the private keyword _a.
BodyCalls ==
    { <<"caller_function", EmptyDict>>, <<"caller_function", "y" :> 2000>>,
      <<"nested_function", EmptyDict>>,
      <<"foo1", EmptyDict>>, <<"foo1", "_a" :> 1>>,
      <<"foo2", EmptyDict>>,
      <<"priv", EmptyDict>>, <<"priv", "_a" :> 1>> }

\* The assignments of the body of foo1: a = 10 (a name an outer frame binds
\* too) and x = 100 (a local that is no parameter).
BodyAssignments == { <<"a", 10>>, <<"x", 100>> }

\* The functions decorated in module M2; the running function binds its
\* locals or none, and the modules bind their globals or none, all at once.
InitBody ==
    /\ \E present \in BOOLEAN :
          globals = [m \in Modules |->
                        IF present THEN [n \in ScopeNames |-> TierValue[m]] ELSE EmptyDict]
    /\ func_globals = [f \in BodyFuncs |-> decorated_globals(f)]
    /\ \E locals \in ScopeDicts(TierValue.caller_locals) :
          stack = <<FunctionFrame("M2", locals)>>
    /\ exc = NoExc
    /\ cli = NoCli

\* The body of the innermost decorated function assigns v to its local n.
AssignLocal(n, v) ==
    /\ exc = NoExc
    /\ stack[Len(stack)].kind = "func"
    /\ stack' = [stack EXCEPT ![Len(stack)].f_locals = Merge(@, n :> v)]
    /\ UNCHANGED <<globals, func_globals, exc, cli>>

NextBody ==
    \/ \E c \in BodyCalls : Depth(stack) < MaxDepth /\ Call(c[1], <<>>, c[2])
    \/ \E a \in BodyAssignments : AssignLocal(a[1], a[2])
    \/ Return

SpecBody == InitBody /\ [][NextBody]_vars

\* What the body of call i started with, whatever it has assigned since:
\* the binding of the arguments its wrapper called it with.
BoundAtCall(i) ==
    bound_locals(sig(stack[i].func), stack[i].pos_only_values, stack[i].resolved_args)

\* The locals of the body of call i as they are now.
BodyLocals(i) == stack[i + 1].f_locals

BodyFramesBelow(i) == {j \in 1..(i - 1) : ~is_wrapper_frame(stack[j])}

\* The frame nearest to call i whose locals bind the non-private name n
\* (0: none).
NearestBinding(i, n) ==
    LET binding == {j \in BodyFramesBelow(i) : n \in DOMAIN filter_privates(f_locals(stack[j]))}
    IN  IF binding = {} THEN 0
        ELSE CHOOSE j \in binding : \A l \in binding : l <= j

\* C14: a parameter looked up in the scopes is bound to the local of that
\* name of the nearest function body on the call stack that binds it,
\* whether that local is a parameter of the body or a variable it assigned.
C14_NearestLocalWins ==
    \A i \in Calls : \A n \in DeclaredParams(i) :
        (LookedUp(i, n) /\ NearestBinding(i, n) # 0)
            => BoundAtCall(i)[n] = f_locals(stack[NearestBinding(i, n)])[n]

\* test_missing_args: the body of foo1 has assigned a = 10 and x = 100 and
\* called foo2(); x is no parameter of foo1, and the outermost frame binds a
\* to another value; foo2 starts with a = 10 and x = 100.
C14_Witness ==
    \E i \in Calls :
        /\ Enclosing(i) # 0 /\ stack[Enclosing(i)].func = "foo1"
        /\ stack[i].func = "foo2"
        /\ "x" \notin ParamNames(sig("foo1"))
        /\ "a" \in DOMAIN f_locals(stack[1]) /\ f_locals(stack[1])["a"] # 10
        /\ {"a", "x"} \subseteq DOMAIN BodyLocals(Enclosing(i))
        /\ BodyLocals(Enclosing(i))["a"] = 10 /\ BodyLocals(Enclosing(i))["x"] = 100
        /\ BoundAtCall(i)["a"] = 10 /\ BoundAtCall(i)["x"] = 100

\* C18: a parameter with a private name is bound to its explicit value,
\* else to the inherited extra, else to its default, else to None: never to
\* what a call-stack local, a function global or a call-stack global of
\* that name holds.
C18_PrivateNeverFromScope ==
    \A i \in Calls : \A n \in DeclaredParams(i) :
        is_private(n) =>
            BoundAtCall(i)[n] =
                IF PassedExplicitly(i, n) THEN Supplied(i, n)
                ELSE IF n \in DOMAIN Inherited(i) THEN Inherited(i)[n]
                ELSE IF ParamOf(i, n).has_default THEN ParamOf(i, n).default
                ELSE None

\* priv() called with _a looked up while the local scope of the calling
\* function and the globals of both modules bind _a: _a is None, and a, a
\* public name, is taken from the locals.
C18_Witness ==
    \E i \in Calls :
        /\ stack[i].func = "priv" /\ LookedUp(i, "_a")
        /\ "_a" \in DOMAIN f_locals(stack[1])
        /\ \A m \in Modules : "_a" \in DOMAIN globals[m]
        /\ BoundAtCall(i)["_a"] = None
        /\ BoundAtCall(i)["a"] = f_locals(stack[1])["a"]

---------------------------------------------------------------------------
(* Sibling calls: the calls a body makes one after the other *)

\* The calls a body makes: with and without a keyword the callee does not
\* declare (k for foo, a for bar).
SiblingCalls ==
    { <<"foo", EmptyDict>>, <<"foo", "k" :> 1>>,
      <<"bar", EmptyDict>>, <<"bar", "a" :> 1>> }

\* The frame of a body, with the record of the calls that have returned
\* into it: the wrapper frames, as they were, of the first and of the last.
WithReturned(frame, w) ==
    Merge(frame, "returned" :>
        [ first |-> IF "returned" \in DOMAIN frame THEN frame.returned.first ELSE w,
          last  |-> w ])

\* As Return; the body of a decorated function that made the call records
\* it.
ReturnRecorded ==
    /\ exc = NoExc
    /\ stack[Len(stack)].kind = "func"
    /\ LET w      == stack[Len(stack) - 1]
           caller == Len(stack) - 2
       IN  stack' = [i \in 1..caller |->
                        IF i = caller /\ stack[i].kind = "func"
                        THEN WithReturned(stack[i], w)
                        ELSE stack[i]]
    /\ UNCHANGED <<globals, func_globals, exc, cli>>

NextSiblings ==
    \/ \E c \in SiblingCalls : Depth(stack) < MaxDepth /\ Call(c[1], <<>>, c[2])
    \/ ReturnRecorded

SpecSiblings == Init /\ [][NextSiblings]_vars

\* The calls whose caller has seen a call return: call i has a sibling.
HasSibling(i) == "returned" \in DOMAIN stack[i - 1]
FirstSibling(i) == stack[i - 1].returned.first
LastSibling(i) == stack[i - 1].returned.last

\* The extras call i publishes, from what it inherited and what it was
\* passed: the keywords of either that name no parameter of its function.
OwnExtras(i) ==
    Restrict(Merge(Inherited(i), stack[i].kwargs_in),
             ((DOMAIN Inherited(i)) \cup (DOMAIN stack[i].kwargs_in))
                 \ ParamNames(sig(stack[i].func)))

\* C15: a call inherits exactly the extras of the call whose body made it,
\* whatever keywords were supplied to the sibling calls that returned before
\* it, and the extras a call publishes are those of its own invocation,
\* whatever its nested calls were passed.
C15_ExtrasOnlyDownwards ==
    \A i \in Calls :
        /\ stack[i].parent_extra = Inherited(i)
        /\ stack[i].extra_kwargs = OwnExtras(i)

\* In the body of a decorated call A, foo(k=1) has returned and bar() is
\* running: k is not among the extras bar inherited and bar's k is its
\* default, and A's extras hold no k.
C15_Witness ==
    \E i \in Calls :
        /\ Enclosing(i) # 0 /\ HasSibling(i)
        /\ LastSibling(i).func = "foo" /\ LastSibling(i).extra_kwargs = ("k" :> 1)
        /\ stack[i].func = "bar" /\ stack[i].kwargs_in = EmptyDict
        /\ "k" \notin DOMAIN stack[i].parent_extra
        /\ "k" \notin DOMAIN stack[Enclosing(i)].extra_kwargs
        /\ Received(i)["k"] = 3

---------------------------------------------------------------------------
(* Deep chains: more nested calls than get_locals looks at frames *)

\* The deepest nesting of the deep chains: two calls more than the frames
\* wrapper() asks get_locals for.
DeepDepth == 12

\* The call the running function makes, caller_function(), and the calls
\* the bodies of decorated functions make: foo1(), which declares no x, and
\* nested_function(), which declares x without a default.
DeepTopCalls == {"caller_function"}
DeepBodyCalls == {"foo1", "nested_function"}

\* As InitBody; the running function binds no locals.
InitDeep ==
    /\ \E present \in BOOLEAN :
          globals = [m \in Modules |->
                        IF present THEN [n \in ScopeNames |-> TierValue[m]] ELSE EmptyDict]
    /\ func_globals = [f \in BodyFuncs |-> decorated_globals(f)]
    /\ stack = <<FunctionFrame("M2", EmptyDict)>>
    /\ exc = NoExc
    /\ cli = NoCli

NextDeep ==
    \/ \E f \in DeepTopCalls : Depth(stack) = 0 /\ Call(f, <<>>, EmptyDict)
    \/ \E f \in DeepBodyCalls :
          Depth(stack) \in 1..(DeepDepth - 1) /\ Call(f, <<>>, EmptyDict)
    \/ Return

SpecDeep == InitDeep /\ [][NextDeep]_vars

\* The nearest decorated call enclosing call i that declares n (0: none).
NearestDeclaring(i, n) ==
    LET declaring == {j \in Calls : j < i /\ n \in DeclaredParams(j)}
    IN  IF declaring = {} THEN 0
        ELSE CHOOSE j \in declaring : \A l \in declaring : l <= j

\* The decorated calls nested between calls j and i.
CallsBetween(j, i) == {l \in Calls : j < l /\ l < i}

\* C23: a parameter with a public name that is looked up in the scopes is
\* bound to the value the nearest enclosing decorated call that declares
\* that name bound it to, however many decorated calls lie between the two.
C23_NearestEnclosingAtAnyDepth ==
    \A i \in Calls : \A n \in DeclaredParams(i) :
        (LookedUp(i, n) /\ ~is_private(n) /\ NearestDeclaring(i, n) # 0)
            => Received(i)[n] = Received(NearestDeclaring(i, n))[n]

\* What does hold: the same with fewer than StackDepth decorated calls in
\* between, the reach of get_locals(10), the body of each call being one
\* frame.
NearestEnclosingWithinReach ==
    \A i \in Calls : \A n \in DeclaredParams(i) :
        (/\ LookedUp(i, n) /\ ~is_private(n) /\ NearestDeclaring(i, n) # 0
         /\ Cardinality(CallsBetween(NearestDeclaring(i, n), i)) < StackDepth)
            => Received(i)[n] = Received(NearestDeclaring(i, n))[n]

---------------------------------------------------------------------------
(* Keywords that name a parameter already bound by position *)

\* The calls: foo(k=2), which publishes the extra k; bar(1) and bar(1, k=2),
\* whose k is bound by position; foo(1, a=2), whose a is; bar() and foo().
ShadowCalls ==
    { <<"foo", <<>>, "k" :> 2>>, <<"foo", <<>>, EmptyDict>>, <<"foo", <<1>>, "a" :> 2>>,
      <<"bar", <<>>, EmptyDict>>, <<"bar", <<1>>, EmptyDict>>, <<"bar", <<1>>, "k" :> 2>> }

NextShadow ==
    \/ \E c \in ShadowCalls : Depth(stack) < ChainDepth /\ Call(c[1], c[2], c[3])
    \/ Return

SpecShadow == Init /\ [][NextShadow]_vars

\* The decorated calls made from the body of call i.
NestedIn(i) == {c \in Calls : Enclosing(c) = i}

\* C24: when a parameter bound by an explicit positional argument is also
\* named by a keyword of the call or by an inherited extra, the call raises
\* nothing, the positional value is bound, and the keyword is not among the
\* call's extras: the variadic-keyword parameter does not hold it and the
\* calls nested in the call do not inherit it.
C24_ShadowedKeywordIgnored ==
    /\ exc = NoExc
    /\ \A i \in Calls : \A n \in DeclaredParams(i) :
          (/\ PassedPositionally(i, n)
           /\ n \in (DOMAIN stack[i].kwargs_in) \cup (DOMAIN Inherited(i)))
              => /\ Received(i)[n] = stack[i].args[ParamIndex(sig(stack[i].func), n)]
                 /\ n \notin DOMAIN stack[i].extra_kwargs
                 /\ n \notin DOMAIN ReceivedVarKwargs(i)
                 /\ \A c \in NestedIn(i) : n \notin DOMAIN stack[c].parent_extra

\* foo(k=2) -> bar(1) -> bar(): the middle call inherits k = 2 and is passed
\* k = 1 by position; its k is 1, it publishes no k, and the innermost
\* call's k is its default.
C24_Witness ==
    \E a, b, c \in Calls :
        /\ IsChain(a, b, c)
        /\ stack[a].func = "foo" /\ stack[a].kwargs_in = ("k" :> 2)
        /\ stack[b].func = "bar" /\ stack[b].args = <<1>>
        /\ stack[b].parent_extra = ("k" :> 2)
        /\ Received(b)["k"] = 1
        /\ "k" \notin DOMAIN stack[b].extra_kwargs
        /\ stack[c].func = "bar" /\ stack[c].args = <<>> /\ stack[c].kwargs_in = EmptyDict
        /\ Received(c)["k"] = 3

---------------------------------------------------------------------------
(* The extras a call publishes *)

\* Keyword n reaches call i both as an inherited extra and as a keyword of
\* the call, and names no parameter of its function.
InheritedAndSupplied(i, n) ==
    /\ n \in DOMAIN Inherited(i)
    /\ SuppliedExtra(i, n)

\* C25: when a call inherits an extra and is also passed a keyword of that
\* name, which names none of its parameters, the extra it publishes holds
\* the value of the keyword: its variadic-keyword parameter, if it declares
\* one, holds that value, every call nested in it inherits that value, and
\* a nested call that declares the name and is not passed it binds it.
C25_ExplicitExtraOverridesInherited ==
    \A b \in Calls : \A n \in DOMAIN stack[b].kwargs_in :
        InheritedAndSupplied(b, n)
            => /\ stack[b].extra_kwargs[n] = stack[b].kwargs_in[n]
               /\ arrg_has_kwarg_var(sig(stack[b].func))
                     => ReceivedVarKwargs(b)[n] = stack[b].kwargs_in[n]
               /\ \A c \in NestedIn(b) :
                     /\ stack[c].parent_extra[n] = stack[b].kwargs_in[n]
                     /\ (n \in DeclaredParams(c) /\ ~PassedExplicitly(c, n))
                           => Received(c)[n] = stack[b].kwargs_in[n]

\* bar(a=1) -> bar(a=2) -> foo(): the variadic-keyword parameter of the
\* middle call holds a = 2 and foo's a is 2, although the call-stack locals
\* bind a.
C25_Witness ==
    \E a, b, c \in Calls :
        /\ IsChain(a, b, c)
        /\ stack[a].func = "bar" /\ stack[a].kwargs_in = ("a" :> 1)
        /\ stack[b].func = "bar" /\ stack[b].kwargs_in = ("a" :> 2)
        /\ InheritedAndSupplied(b, "a")
        /\ ReceivedVarKwargs(b) = ("a" :> 2)
        /\ stack[c].func = "foo" /\ ~PassedExplicitly(c, "a")
        /\ "a" \in DOMAIN stack[c].caller_locals
        /\ Received(c)["a"] = 2

\* Keyword n reaches call i, inherited or passed, and is bound to the
\* parameter n of its function: the call consumes it.
Consumed(i, n) ==
    /\ n \in (DOMAIN Inherited(i)) \cup (DOMAIN stack[i].kwargs_in)
    /\ n \in ParamNames(sig(stack[i].func))

\* C26: the extras a call publishes are the merge of the extras it
\* inherited and the keywords it was passed, without the keys that name a
\* parameter of its function; a call nested in it does not inherit a key it
\* consumed, and binds a parameter of that name that has a default and is
\* not passed to that default.
C26_ConsumedExtraNotForwarded ==
    \A b \in Calls :
        /\ DOMAIN stack[b].extra_kwargs =
              ((DOMAIN Inherited(b)) \cup (DOMAIN stack[b].kwargs_in))
                  \ ParamNames(sig(stack[b].func))
        /\ \A n \in DOMAIN stack[b].extra_kwargs :
              stack[b].extra_kwargs[n] =
                  IF n \in DOMAIN stack[b].kwargs_in
                  THEN stack[b].kwargs_in[n] ELSE Inherited(b)[n]
        /\ \A c \in NestedIn(b) : \A n \in DeclaredParams(c) :
              Consumed(b, n)
                  => /\ n \notin DOMAIN stack[c].parent_extra
                     /\ (ParamOf(c, n).has_default /\ ~PassedExplicitly(c, n))
                           => Received(c)[n] = ParamOf(c, n).default

\* foo(k=1) -> bar() -> bar(): the middle call consumes the inherited k,
\* its k is 1, and the innermost call's k is its default 3.
C26_Witness ==
    \E a, b, c \in Calls :
        /\ IsChain(a, b, c)
        /\ stack[a].func = "foo" /\ stack[a].kwargs_in = ("k" :> 1)
        /\ stack[b].func = "bar" /\ stack[b].kwargs_in = EmptyDict
        /\ Consumed(b, "k") /\ Received(b)["k"] = 1
        /\ stack[c].func = "bar" /\ stack[c].kwargs_in = EmptyDict
        /\ "k" \notin DOMAIN stack[c].parent_extra
        /\ Received(c)["k"] = 3

---------------------------------------------------------------------------
(* shi.cli: strings and Python values *)

\* A str is the sequence of its characters.
DecDigits == {"0", "1", "2", "3", "4", "5", "6", "7", "8", "9"}
HexDigits == DecDigits \cup {"a", "b", "c", "d", "e", "f", "A", "B", "C", "D", "E", "F"}
Whitespace == {" "}

DigitValue(c) ==
    CASE c = "0" -> 0 [] c = "1" -> 1 [] c = "2" -> 2 [] c = "3" -> 3 [] c = "4" -> 4
      [] c = "5" -> 5 [] c = "6" -> 6 [] c = "7" -> 7 [] c = "8" -> 8 [] c = "9" -> 9
      [] c \in {"a", "A"} -> 10 [] c \in {"b", "B"} -> 11 [] c \in {"c", "C"} -> 12
      [] c \in {"d", "D"} -> 13 [] c \in {"e", "E"} -> 14 [] c \in {"f", "F"} -> 15

\* The number a sequence of digits spells in a base.
RECURSIVE DigitsValue(_, _)
DigitsValue(d, base) ==
    IF d = <<>> THEN 0
    ELSE DigitsValue(SubSeq(d, 1, Len(d) - 1), base) * base + DigitValue(d[Len(d)])

AllIn(s, C) == \A i \in 1..Len(s) : s[i] \in C

\* The first position of s that holds a character of C (0: none).
IndexOf(s, C) ==
    IF \E i \in 1..Len(s) : s[i] \in C
    THEN CHOOSE i \in 1..Len(s) : s[i] \in C /\ \A j \in 1..(i - 1) : s[j] \notin C
    ELSE 0

startswith(s, prefix) == Len(s) >= Len(prefix) /\ SubSeq(s, 1, Len(prefix)) = prefix

RECURSIVE lstrip(_)
lstrip(s) == IF s # <<>> /\ s[1] \in Whitespace THEN lstrip(Tail(s)) ELSE s

RECURSIVE rstrip(_)
rstrip(s) ==
    IF s # <<>> /\ s[Len(s)] \in Whitespace THEN rstrip(SubSeq(s, 1, Len(s) - 1)) ELSE s

strip(s) == rstrip(lstrip(s))

\* str.lower(), for the upper-case letters the strings of the model use.
lower(s) ==
    [i \in 1..Len(s) |->
        CASE s[i] = "A" -> "a" [] s[i] = "B" -> "b" [] s[i] = "C" -> "c" [] s[i] = "D" -> "d"
          [] s[i] = "E" -> "e" [] s[i] = "F" -> "f" [] s[i] = "N" -> "n" [] s[i] = "T" -> "t"
          [] s[i] = "X" -> "x" [] s[i] = "Y" -> "y" [] OTHER -> s[i]]

\* Python values, each with its type.
PyInt(n) == [type |-> "int", value |-> n]
PyBool(b) == [type |-> "bool", value |-> b]
PyStr(s) == [type |-> "str", value |-> s]
PyNone == [type |-> "NoneType", value |-> <<>>]
PyList(items) == [type |-> "list", value |-> items]
PyTuple(items) == [type |-> "tuple", value |-> items]
PyModule(name) == [type |-> "module", value |-> name]

\* A float is num * 10^exp10 with num not divisible by 10, so that equal
\* numbers are equal values.
RECURSIVE PyFloat(_, _)
PyFloat(num, exp10) ==
    IF num = 0 THEN [type |-> "float", value |-> [num |-> 0, exp10 |-> 0]]
    ELSE IF num % 10 = 0 THEN PyFloat(num \div 10, exp10 + 1)
    ELSE [type |-> "float", value |-> [num |-> num, exp10 |-> exp10]]

\* The exception a conversion raises instead of returning a value.
Raises == [type |-> "raises", value |-> <<>>]
Raised(v) == v.type = "raises"

Sign(s) == IF s # <<>> /\ s[1] = "-" THEN -1 ELSE 1
Unsigned(s) == IF s # <<>> /\ s[1] \in {"-", "+"} THEN Tail(s) ELSE s

\* int(s, base) for base 10 and 16: surrounding whitespace stripped, an
\* optional sign, for base 16 an optional 0x, then one or more digits of the
\* base; ValueError otherwise.
py_int(s, base) ==
    LET u == Unsigned(strip(s))
        d == IF base = 16 /\ (startswith(u, <<"0", "x">>) \/ startswith(u, <<"0", "X">>))
             THEN SubSeq(u, 3, Len(u)) ELSE u
    IN  IF d # <<>> /\ AllIn(d, IF base = 16 THEN HexDigits ELSE DecDigits)
        THEN PyInt(Sign(strip(s)) * DigitsValue(d, base))
        ELSE Raises

\* float(s) for decimal spellings: whitespace stripped, an optional sign,
\* digits with an optional point (a digit on at least one side of it), an
\* optional exponent e with an optional sign and digits; ValueError
\* otherwise.
py_float(s) ==
    LET u    == Unsigned(strip(s))
        e    == IndexOf(u, {"e", "E"})
        mant == IF e = 0 THEN u ELSE SubSeq(u, 1, e - 1)
        expo == IF e = 0 THEN <<>> ELSE SubSeq(u, e + 1, Len(u))
        dot  == IndexOf(mant, {"."})
        ip   == IF dot = 0 THEN mant ELSE SubSeq(mant, 1, dot - 1)
        fp   == IF dot = 0 THEN <<>> ELSE SubSeq(mant, dot + 1, Len(mant))
    IN  IF /\ AllIn(ip, DecDigits) /\ AllIn(fp, DecDigits) /\ ip \o fp # <<>>
           /\ e = 0 \/ (Unsigned(expo) # <<>> /\ AllIn(Unsigned(expo), DecDigits))
        THEN PyFloat(Sign(strip(s)) * DigitsValue(ip \o fp, 10),
                     Sign(expo) * DigitsValue(Unsigned(expo), 10) - Len(fp))
        ELSE Raises

\* re.split(r",\s*", s)
RECURSIVE re_split(_)
re_split(s) ==
    LET c == IndexOf(s, {","})
    IN  IF c = 0 THEN <<s>>
        ELSE <<SubSeq(s, 1, c - 1)>> \o re_split(lstrip(SubSeq(s, c + 1, Len(s))))

\* The names the module shi.cli binds to the modules it imports.
CliModuleNames == {<<"r", "e">>, <<"s", "y", "s">>}

\* eval(s) in the namespace of shi.cli, for the expressions the strings of
\* the model spell: the constants True, False and None, a name the module
\* binds, and two or more integers separated by commas (a tuple).  Any other
\* string that reaches eval is no expression or an unbound name, and raises.
py_eval(s) ==
    LET items == re_split(strip(s))
    IN  CASE s = <<"T", "r", "u", "e">> -> PyBool(TRUE)
          [] s = <<"F", "a", "l", "s", "e">> -> PyBool(FALSE)
          [] s = <<"N", "o", "n", "e">> -> PyNone
          [] s \in CliModuleNames -> PyModule(s)
          [] /\ Len(items) >= 2
             /\ \A i \in 1..Len(items) :
                   AllIn(Unsigned(strip(items[i])), DecDigits) /\ Unsigned(strip(items[i])) # <<>>
             -> PyTuple([i \in 1..Len(items) |-> py_int(items[i], 10)])
          [] OTHER -> Raises

---------------------------------------------------------------------------
(* shi.cli.convert_value *)

\* The declared types: inspect.Parameter.empty (none declared), bool, int,
\* float, str, List[int] and a type convert_value knows nothing of.
Annotation(name) == [name |-> name, args |-> <<>>]
ListOf(item) == [name |-> "list", args |-> <<item>>]
TargetTypes ==
    {Annotation(n) : n \in {"empty", "bool", "int", "float", "str", "dict"}}
        \cup {ListOf(Annotation("int"))}

\* ("true", "1", "t", "y", "yes")
TrueWords == {<<"t", "r", "u", "e">>, <<"1">>, <<"t">>, <<"y">>, <<"y", "e", "s">>}

RECURSIVE convert_value(_, _)
convert_value(value_str, target_type) ==
    IF target_type.name = "empty"
    THEN IF ~Raised(py_int(value_str, 10)) THEN py_int(value_str, 10)
         ELSE IF startswith(value_str, <<"0", "x">>) /\ ~Raised(py_int(value_str, 16))
              THEN py_int(value_str, 16)
         ELSE IF ~Raised(py_float(value_str)) THEN py_float(value_str)
         ELSE IF ~Raised(py_eval(value_str)) THEN py_eval(value_str)
         ELSE PyStr(value_str)
    ELSE IF target_type.name = "bool" THEN PyBool(lower(value_str) \in TrueWords)
    ELSE IF target_type.name = "int"
    THEN IF ~Raised(py_int(value_str, 10)) THEN py_int(value_str, 10)
         ELSE IF ~Raised(py_int(value_str, 16)) THEN py_int(value_str, 16)
         ELSE PyStr(value_str)
    ELSE IF target_type.name = "float"
    THEN IF ~Raised(py_float(value_str)) THEN py_float(value_str) ELSE PyStr(value_str)
    ELSE IF target_type.name = "str" THEN PyStr(value_str)
    ELSE IF target_type.name = "list"
    THEN PyList([i \in 1..Len(re_split(value_str)) |->
                    convert_value(re_split(value_str)[i], target_type.args[1])])
    ELSE PyStr(value_str)

---------------------------------------------------------------------------
(* shi.cli.parse_cli_args *)

\* def test_func(pos1: str, pos2: int, kw1: bool, kw2: float)
\* (test_parse_cli_args_mixed)
CliFuncs == {"test_func"}

\* def echo(message: str, loud: bool = False)
\* (test_run_cli_echo_command)
\* def required_arg_func(param1: str, param2: int)
\* (test_run_cli_missing_required_argument)

CliParam(name, kind, annotation) == [name |-> name, kind |-> kind, annotation |-> annotation]

cli_sig(func) ==
    CASE func = "echo" ->
    << CliParam(<<"m", "e", "s", "s", "a", "g", "e">>, "POSITIONAL_OR_KEYWORD", Annotation("str")),
       CliParam(<<"l", "o", "u", "d">>, "POSITIONAL_OR_KEYWORD", Annotation("bool")) >>
      [] func = "required_arg_func" ->
    << CliParam(<<"p", "a", "r", "a", "m", "1">>, "POSITIONAL_OR_KEYWORD", Annotation("str")),
       CliParam(<<"p", "a", "r", "a", "m", "2">>, "POSITIONAL_OR_KEYWORD", Annotation("int")) >>
      [] OTHER ->
    << CliParam(<<"p", "o", "s", "1">>, "POSITIONAL_OR_KEYWORD", Annotation("str")),
       CliParam(<<"p", "o", "s", "2">>, "POSITIONAL_OR_KEYWORD", Annotation("int")),
       CliParam(<<"k", "w", "1">>, "POSITIONAL_OR_KEYWORD", Annotation("bool")),
       CliParam(<<"k", "w", "2">>, "POSITIONAL_OR_KEYWORD", Annotation("float")) >>

\* The parameters that take the positional arguments, in declaration order.
RECURSIVE positional_params(_)
positional_params(s) ==
    IF s = <<>> THEN <<>>
    ELSE IF Head(s).kind \in PositionalKinds /\ Head(s).name \notin {<<"s", "e", "l", "f">>, <<"c", "l", "s">>, <<".">>}
         THEN <<Head(s)>> \o positional_params(Tail(s))
         ELSE positional_params(Tail(s))

CliParamNames(s) == {s[i].name : i \in 1..Len(s)}
CliParamNamed(s, key) == s[CHOOSE i \in 1..Len(s) : s[i].name = key]

NoMatch == [matched |-> FALSE]

\* re.match(r"^--([^=\s]+)(=(.+))?$", arg_str): the key runs up to the first
\* = or whitespace; the string ends there, or an = and a value of one or
\* more characters follow.
match_long(arg_str) ==
    LET rest == SubSeq(arg_str, 3, Len(arg_str))
        stop == IndexOf(rest, {"="} \cup Whitespace)
        key  == IF stop = 0 THEN rest ELSE SubSeq(rest, 1, stop - 1)
    IN  IF ~startswith(arg_str, <<"-", "-">>) \/ key = <<>> THEN NoMatch
        ELSE IF stop = 0
             THEN [matched |-> TRUE, key |-> key, has_value |-> FALSE, value_str |-> <<>>]
        ELSE IF rest[stop] = "=" /\ stop < Len(rest)
             THEN [matched |-> TRUE, key |-> key, has_value |-> TRUE,
                   value_str |-> SubSeq(rest, stop + 1, Len(rest))]
        ELSE NoMatch

\* re.match(r"^([^=\s]+)=(.+)$", arg_str)
match_assign(arg_str) ==
    LET stop == IndexOf(arg_str, {"="} \cup Whitespace)
    IN  IF stop > 1 /\ arg_str[stop] = "=" /\ stop < Len(arg_str)
        THEN [matched |-> TRUE, key |-> SubSeq(arg_str, 1, stop - 1),
              value_str |-> SubSeq(arg_str, stop + 1, Len(arg_str))]
        ELSE NoMatch

\* re.match(r"^([^+\s]+)(\+\+|--)$", arg_str)
match_flag(arg_str) ==
    LET n   == Len(arg_str)
        key == SubSeq(arg_str, 1, n - 2)
        op  == SubSeq(arg_str, n - 1, n)
    IN  IF n >= 3 /\ op \in {<<"+", "+">>, <<"-", "-">>} /\ \A i \in 1..Len(key) : key[i] \notin {"+"} \cup Whitespace
        THEN [matched |-> TRUE, key |-> key, op |-> op]
        ELSE NoMatch

\* The loop `for arg_str in cli_args_iter` from the arguments not yet
\* consumed: the dict parse_cli_args returns, or sys.exit(1) when a --key
\* is the last argument.  pos_param_idx counts from 0.
RECURSIVE parse_args_from(_, _, _, _)
parse_args_from(s, args, pos_param_idx, parsed_args) ==
    IF args = <<>> THEN [status |-> "returned", parsed_args |-> parsed_args]
    ELSE
    LET arg_str == Head(args)
        long    == match_long(arg_str)
        assign  == match_assign(arg_str)
        flag    == match_flag(arg_str)
        convert(key, value_str) ==
            IF key \in CliParamNames(s)
            THEN convert_value(value_str, CliParamNamed(s, key).annotation)
            ELSE PyStr(value_str)
    IN  IF long.matched
        THEN IF long.has_value
             THEN parse_args_from(s, Tail(args), pos_param_idx,
                      Merge(parsed_args, long.key :> convert(long.key, long.value_str)))
             ELSE IF Tail(args) = <<>>
             THEN [status |-> "exit", parsed_args |-> parsed_args]
             ELSE parse_args_from(s, Tail(Tail(args)), pos_param_idx,
                      Merge(parsed_args, long.key :> convert(long.key, Head(Tail(args)))))
        ELSE IF assign.matched
        THEN parse_args_from(s, Tail(args), pos_param_idx,
                 Merge(parsed_args, assign.key :> convert(assign.key, assign.value_str)))
        ELSE IF flag.matched
        THEN IF /\ flag.key \in CliParamNames(s)
                /\ CliParamNamed(s, flag.key).annotation.name = "bool"
             THEN parse_args_from(s, Tail(args), pos_param_idx,
                      Merge(parsed_args, flag.key :> PyBool(flag.op = <<"+", "+">>)))
             ELSE parse_args_from(s, Tail(args), pos_param_idx, parsed_args)
        ELSE IF pos_param_idx < Len(positional_params(s))
        THEN parse_args_from(s, Tail(args), pos_param_idx + 1,
                 Merge(parsed_args,
                       positional_params(s)[pos_param_idx + 1].name :>
                           convert_value(arg_str, positional_params(s)[pos_param_idx + 1].annotation)))
        ELSE parse_args_from(s, Tail(args), pos_param_idx, parsed_args)

parse_cli_args(func, cli_args_raw) ==
    parse_args_from(cli_sig(func), cli_args_raw, 0, EmptyDict)

---------------------------------------------------------------------------
(* shi.cli: the calls and their inputs *)

\* The strings convert_value is given: the empty string, decimal, negative
\* and 0x integers, floats with a point and with an exponent, words that
\* are and are not hexadecimal digits, Python constants, a name shi.cli
\* binds, and comma-separated items.
ValueStrings ==
    { <<>>, <<"1", "2">>, <<"-", "3">>, <<"0", "x", "1", "f">>, <<"3", ".", "5">>, <<"1", "e", "3">>, <<"a", "b", "c">>, <<"x", "y", "z">>, <<"T", "r", "u", "e">>, <<"N", "o", "n", "e">>,
      <<"r", "e">>, <<"1", ",", "2">>, <<"1", ",", " ", "x">> }

\* The arguments of a command line before they are spelled: a positional
\* value, or a key and a value in one of the three keyword forms.
TokenForms == {"key=value", "--key=value", "--key value"}
PositionalValues == {<<"a", "b">>, <<"1", "0">>}
CliKeys == {<<"p", "o", "s", "2">>, <<"k", "w", "1">>}
CliValues == {<<>>, <<"1", "0">>, <<"T", "r", "u", "e">>}

CliTokens ==
    {[form |-> "positional", key |-> <<>>, value |-> v] : v \in PositionalValues}
        \cup {[form |-> f, key |-> k, value |-> v] :
                 f \in TokenForms, k \in CliKeys, v \in CliValues}

\* The most arguments on a command line.
MaxTokens == 3

\* The strings of sys.argv that spell one argument.
Spelling(token) ==
    CASE token.form = "positional"  -> <<token.value>>
      [] token.form = "key=value"   -> <<token.key \o <<"=">> \o token.value>>
      [] token.form = "--key=value" -> <<<<"-", "-">> \o token.key \o <<"=">> \o token.value>>
      [] token.form = "--key value" -> <<<<"-", "-">> \o token.key, token.value>>

RECURSIVE SpellAll(_)
SpellAll(tokens) ==
    IF tokens = <<>> THEN <<>> ELSE Spelling(Head(tokens)) \o SpellAll(Tail(tokens))

PositionalTokens(tokens) == {i \in 1..Len(tokens) : tokens[i].form = "positional"}

\* The number of positional arguments among the first i.
PositionalRank(tokens, i) == Cardinality({j \in PositionalTokens(tokens) : j <= i})

\* The arguments are for distinct parameters: no more positional arguments
\* than positional parameters, no two keyword arguments with one key, and
\* no keyword argument for a parameter a positional argument takes.
ForDistinctParams(func, tokens) ==
    LET pp   == positional_params(cli_sig(func))
        npos == Cardinality(PositionalTokens(tokens))
    IN  /\ npos <= Len(pp)
        /\ \A i, j \in 1..Len(tokens) :
              (i # j /\ tokens[i].form # "positional" /\ tokens[j].form # "positional")
                  => tokens[i].key # tokens[j].key
        /\ \A i \in 1..Len(tokens) : \A j \in 1..npos :
              tokens[i].form # "positional" => tokens[i].key # pp[j].name

CommandLines(func) ==
    {tokens \in UNION {[1..n -> CliTokens] : n \in 0..MaxTokens} :
        ForDistinctParams(func, tokens)}

ConvertPending == [type |-> "pending", value |-> <<>>]
ParsePending == [status |-> "pending", parsed_args |-> EmptyDict]

\* A call of convert_value or of parse_cli_args is about to be made; no
\* decorated function is running.
InitCli ==
    /\ stack = <<>>
    /\ globals = [m \in Modules |-> EmptyDict]
    /\ func_globals = [f \in {} |-> EmptyDict]
    /\ exc = NoExc
    /\ \/ \E v \in ValueStrings, t \in TargetTypes :
             cli = [op |-> "convert_value", value_str |-> v, target_type |-> t,
                    done |-> FALSE, result |-> ConvertPending]
       \/ \E func \in CliFuncs : \E tokens \in CommandLines(func) :
             cli = [op |-> "parse_cli_args", func |-> func, tokens |-> tokens,
                    cli_args_raw |-> SpellAll(tokens),
                    done |-> FALSE, result |-> ParsePending]

ConvertValue ==
    /\ cli.op = "convert_value" /\ ~cli.done
    /\ cli' = [cli EXCEPT !.done = TRUE,
                          !.result = convert_value(cli.value_str, cli.target_type)]
    /\ UNCHANGED <<stack, globals, func_globals, exc>>

ParseCliArgs ==
    /\ cli.op = "parse_cli_args" /\ ~cli.done
    /\ cli' = [cli EXCEPT !.done = TRUE,
                          !.result = parse_cli_args(cli.func, cli.cli_args_raw)]
    /\ UNCHANGED <<stack, globals, func_globals, exc>>

NextCli ==
    \/ ConvertValue
    \/ ParseCliArgs

SpecCli == InitCli /\ [][NextCli]_vars

---------------------------------------------------------------------------
(* shi.cli: claims *)

SameValue(v, w) == v.type = w.type /\ v.value = w.value

\* The integer a string spells: decimal, or hexadecimal behind 0x.
AsInteger(s) ==
    IF ~Raised(py_int(s, 10)) THEN py_int(s, 10)
    ELSE IF startswith(s, <<"0", "x">>) THEN py_int(s, 16)
    ELSE Raises

\* C19: convert_value returns a value of the declared type or the raw
\* string: for a declared int or float a string that converts to neither
\* number comes back raw, and with no declared type the result is the
\* integer the string spells, else the float it spells, else the raw string.
C19_ConvertsOrPassesThrough ==
    (cli.op = "convert_value" /\ cli.done) =>
        LET s   == cli.value_str
            T   == cli.target_type.name
            r   == cli.result
            raw == PyStr(s)
        IN  /\ T \in {"bool", "int", "float", "str", "list"}
                  => r.type = T \/ SameValue(r, raw)
            /\ T = "dict" => SameValue(r, raw)
            /\ (T = "int" /\ Raised(py_int(s, 10)) /\ Raised(py_int(s, 16)))
                  => SameValue(r, raw)
            /\ (T = "float" /\ Raised(py_float(s))) => SameValue(r, raw)
            /\ T = "empty"
                  => SameValue(r, IF ~Raised(AsInteger(s)) THEN AsInteger(s)
                                  ELSE IF ~Raised(py_float(s)) THEN py_float(s)
                                  ELSE raw)

SameArgs(d, e) ==
    /\ DOMAIN d = DOMAIN e
    /\ \A k \in DOMAIN d : SameValue(d[k], e[k])

\* The mapping the arguments stand for: the i-th positional argument for
\* the i-th positional parameter, a keyword argument for the parameter its
\* key names, each value converted to the parameter's declared type.
ExpectedArgs(func, tokens) ==
    LET s  == cli_sig(func)
        pp == positional_params(s)
        name_of(i) == IF tokens[i].form = "positional"
                      THEN pp[PositionalRank(tokens, i)].name
                      ELSE tokens[i].key
    IN  [k \in {name_of(i) : i \in 1..Len(tokens)} |->
            LET i == CHOOSE j \in 1..Len(tokens) : name_of(j) = k
            IN  convert_value(tokens[i].value, CliParamNamed(s, k).annotation)]

\* C20: parse_cli_args returns the mapping the arguments stand for, whatever
\* the keyword form of each and however positional and keyword arguments
\* for distinct parameters are interleaved.
C20_FormsAndOrderEquivalent ==
    (cli.op = "parse_cli_args" /\ cli.done) =>
        /\ cli.result.status = "returned"
        /\ SameArgs(cli.result.parsed_args, ExpectedArgs(cli.func, cli.tokens))

---------------------------------------------------------------------------
(* shi.cli: cli, show_usage and run_cli *)

\* The functions the tests register with @cli and call through run_cli.
RunFuncs == {"echo", "required_arg_func"}

\* parameter.default of the parameters that declare one.
cli_defaults(func) ==
    IF func = "echo" THEN <<"l", "o", "u", "d">> :> PyBool(FALSE) ELSE EmptyDict

\* str.upper(), for the lower-case letters the strings of the model use.
upper(s) ==
    [i \in 1..Len(s) |->
        CASE s[i] = "a" -> "A" [] s[i] = "b" -> "B" [] s[i] = "c" -> "C"
          [] s[i] = "x" -> "X" [] s[i] = "y" -> "Y" [] s[i] = "z" -> "Z" [] OTHER -> s[i]]

\* cli(thing) for a function: cli_commands[original_func.__name__] = ...; a
\* dict keeps the position of a key that is assigned again.
register(cli_commands, func) ==
    IF \E i \in 1..Len(cli_commands) : cli_commands[i] = func
    THEN cli_commands ELSE Append(cli_commands, func)

\* Mutant: the registered commands are not listed.
show_usage_without_commands(cli_commands) ==
    <<[line |-> "Usage: <command> [args...]"], [line |-> "Available commands:"]>>

\* The lines show_usage prints before sys.exit(1): the usage line, the
\* heading, and one line per registered command with its signature.
show_usage(cli_commands) ==
    <<[line |-> "Usage: <command> [args...]"], [line |-> "Available commands:"]>>
        \o [i \in 1..Len(cli_commands) |->
               [line |-> "command", cmd_name |-> cli_commands[i], sig |-> cli_sig(cli_commands[i])]]

\* final_args: the parsed arguments, and the default of every parameter
\* that has one and was not given.
with_defaults(func, parsed_args) == Merge(cli_defaults(func), parsed_args)

\* wrapped_func(**final_args) raises a TypeError: a keyword that names no
\* parameter, or a parameter without a default that is missing.
call_raises(func, final_args) ==
    \/ \E k \in DOMAIN final_args : k \notin CliParamNames(cli_sig(func))
    \/ \E k \in CliParamNames(cli_sig(func)) : k \notin DOMAIN final_args

\* What the body of the command prints; both return None.
\*   echo: print(message.upper()) if loud else print(message)
\*   required_arg_func: pass
body_output(func, final_args) ==
    IF func = "echo"
    THEN <<[line |-> "output",
            text |-> IF final_args[<<"l", "o", "u", "d">>].value
                     THEN upper(final_args[<<"m", "e", "s", "s", "a", "g", "e">>].value)
                     ELSE final_args[<<"m", "e", "s", "s", "a", "g", "e">>].value]>>
    ELSE <<>>

\* run_cli from the call of the command on: wrapped_func(**final_args)
\* prints what the body prints, or raises the TypeError that run_cli
\* reports with the usage.
run_cli_call(cli_commands, command_name, final_args) ==
    IF call_raises(command_name, final_args)
    THEN [stdout |-> <<[line |-> "Error calling command", command_name |-> command_name]>>
                         \o show_usage(cli_commands),
          exit |-> 1, invoked |-> <<>>]
    ELSE [stdout |-> body_output(command_name, final_args), exit |-> 0,
          invoked |-> <<[func |-> command_name, final_args |-> final_args]>>]

\* run_cli from the result of parse_cli_args on: parse_cli_args may have
\* ended the process; otherwise the defaults are filled in and the command
\* is called.
run_cli_parsed(cli_commands, command_name, parsed) ==
    IF parsed.status = "exit"
    THEN [stdout |-> <<[line |-> "Error: Expected value after"]>>,
          exit |-> 1, invoked |-> <<>>]
    ELSE run_cli_call(cli_commands, command_name,
                      with_defaults(command_name, parsed.parsed_args))

\* run_cli(argv): what it prints, the exit status it terminates the process
\* with (0: it returns), and the commands it invokes.
run_cli(cli_commands, argv) ==
    IF Len(argv) < 1
    THEN [stdout |-> show_usage(cli_commands), exit |-> 1, invoked |-> <<>>]
    ELSE IF ~\E i \in 1..Len(cli_commands) : cli_commands[i] = argv[1]
    THEN [stdout |-> <<[line |-> "Error: Unknown command", command_name |-> argv[1]]>>
                         \o show_usage(cli_commands),
          exit |-> 1, invoked |-> <<>>]
    ELSE run_cli_parsed(cli_commands, argv[1], parse_cli_args(argv[1], Tail(argv)))

\* The argument lists run_cli is given: none, names that are not
\* registered, and the commands with and without their arguments.
RunArgvs ==
    { <<>>, <<"unknown_cmd">>, <<"unknown_cmd", <<"a", "b">>>>,
      <<"echo">>, <<"echo", <<"a", "b">>>>,
      <<"echo", <<"a", "b">>, <<"l", "o", "u", "d", "=", "T", "r", "u", "e">>>>,
      <<"echo", <<"a", "b">>, <<"-", "-", "l", "o", "u", "d">>>>,
      <<"echo", <<"a", "b">>, <<"x", "y", "z", "=", "1">>>>,
      <<"required_arg_func", <<"a", "b">>>>,
      <<"required_arg_func", <<"a", "b">>, <<"1", "0">>>> }

\* The most calls of run_cli in one process.
MaxRuns == 2

\* setUp: no command is registered and nothing is printed.
InitRun ==
    /\ stack = <<>>
    /\ globals = [m \in Modules |-> EmptyDict]
    /\ func_globals = [f \in {} |-> EmptyDict]
    /\ exc = NoExc
    /\ cli = [op |-> "run_cli", cli_commands |-> <<>>, runs |-> 0, argv |-> <<>>,
              stdout |-> <<>>, exit |-> 0, invoked |-> <<>>]

\* @cli applied to a function, before run_cli is called.
Register(func) ==
    /\ cli.op = "run_cli" /\ cli.runs = 0
    /\ cli' = [cli EXCEPT !.cli_commands = register(@, func)]
    /\ UNCHANGED <<stack, globals, func_globals, exc>>

\* The process after a call of run_cli: what it printed is added to stdout,
\* what it invoked to the calls made, and its exit status is kept.
after_run(process, argv, r) ==
    [process EXCEPT !.runs = @ + 1, !.argv = argv,
                    !.stdout = @ \o r.stdout, !.exit = r.exit,
                    !.invoked = @ \o r.invoked]

\* run_cli(argv), unless the process has exited.
RunCli(argv) ==
    /\ cli.op = "run_cli" /\ cli.exit = 0 /\ cli.runs < MaxRuns
    /\ cli' = after_run(cli, argv, run_cli(cli.cli_commands, argv))
    /\ UNCHANGED <<stack, globals, func_globals, exc>>

\* setUp of the next test: cli_commands.clear(), and a new stdout.
SetUp ==
    /\ cli.op = "run_cli" /\ cli.runs > 0
    /\ cli' = [cli EXCEPT !.cli_commands = <<>>, !.runs = 0, !.argv = <<>>,
                          !.stdout = <<>>, !.exit = 0, !.invoked = <<>>]
    /\ UNCHANGED <<stack, globals, func_globals, exc>>

NextRun ==
    \/ \E func \in RunFuncs : Register(func)
    \/ \E argv \in RunArgvs : RunCli(argv)
    \/ SetUp

SpecRun == InitRun /\ [][NextRun]_vars

\* The names registered, and what a call of run_cli has just printed.
Registered(commands) == {commands[i] : i \in 1..Len(commands)}
Printed == SubSeq(cli'.stdout, Len(cli.stdout) + 1, Len(cli'.stdout))

\* C21: a call of run_cli with no arguments, or with a first argument that
\* is no registered name, prints the usage line, the heading and a line per
\* registered command (after an 'Unknown command' line naming the argument
\* when there is one, and without it when there is none), terminates the
\* process with exit status 1, and invokes no command.
C21_NoOrUnknownCommandShowsUsage ==
    [][(/\ cli'.runs = cli.runs + 1
        /\ cli'.argv = <<>> \/ cli'.argv[1] \notin Registered(cli.cli_commands))
           => /\ cli'.exit = 1
              /\ cli'.invoked = cli.invoked
              /\ Len(Printed) = Len(cli.cli_commands) + (IF cli'.argv = <<>> THEN 2 ELSE 3)
              /\ LET usage == SubSeq(Printed, Len(Printed) - Len(cli.cli_commands) - 1, Len(Printed))
                 IN  /\ usage[1].line = "Usage: <command> [args...]"
                     /\ usage[2].line = "Available commands:"
                     /\ \A i \in 1..Len(cli.cli_commands) :
                           /\ usage[i + 2].line = "command"
                           /\ usage[i + 2].cmd_name = cli.cli_commands[i]
              /\ cli'.argv # <<>>
                    => /\ Printed[1].line = "Error: Unknown command"
                       /\ Printed[1].command_name = cli'.argv[1]]_vars

\* echo and required_arg_func are registered, run_cli(["echo", "ab"]) has
\* invoked echo and returned, and run_cli(["unknown_cmd"]) has then printed
\* the error and the usage and exited with status 1, invoking nothing more.
C21_Witness ==
    /\ cli.op = "run_cli" /\ cli.runs = 2
    /\ Registered(cli.cli_commands) = RunFuncs
    /\ cli.argv = <<"unknown_cmd">>
    /\ cli.exit = 1
    /\ Len(cli.invoked) = 1 /\ cli.invoked[1].func = "echo"
    /\ Len(cli.stdout) = 6
    /\ cli.stdout[2].line = "Error: Unknown command"
    /\ cli.stdout[3].line = "Usage: <command> [args...]"

---------------------------------------------------------------------------
(* shi.dprint: dprint and _print_backtrace *)

\* A frame as dprint sees it: the name of its code, the names of its
\* positional parameters, its locals, and whether it is the frame of the
\* wrapper of a functools.wraps decorator.
CodeFrame(co_name, arg_names, locals, is_wrapper) ==
    [co_name |-> co_name, arg_names |-> arg_names, f_locals |-> locals, wrapper |-> is_wrapper]

\* The top-level code of the test module.
ModuleLevel == CodeFrame("<module>", <<>>, EmptyDict, FALSE)

\* def wrapper(*args, **kwargs): return f(*args, **kwargs), the wrapper
\* simple_decorator puts around f: it has no named positional parameter,
\* and its locals are args, kwargs and the function it wraps.
WrapperFrame(f) ==
    CodeFrame("wrapper", <<>>,
              [n \in {"args", "kwargs", "f"} |->
                  CASE n = "args"   -> PyTuple(<<>>)
                    [] n = "kwargs" -> [type |-> "dict", value |-> EmptyDict]
                    [] n = "f"      -> [type |-> "function", value |-> f]],
              TRUE)

\* def outer_func(), def inner_func(param) (test_dprint_nested_functions)
\* and def wrapped_function() (test_dprint_hide_wrappers).
DprintFuncs == {"outer_func", "inner_func"}
DecoratedFuncs == {"wrapped_function"}

BodyFrame(f) ==
    IF f = "inner_func"
    THEN CodeFrame(f, <<"param">>, "param" :> PyInt(5), FALSE)
    ELSE CodeFrame(f, <<>>, EmptyDict, FALSE)

\* _depth=5, the default of dprint.
DefaultDepth == 5

\* The keywords of a call of dprint, in the order they are passed, and the
\* values of _depth.
DprintKwargs ==
    { <<>>, <<[key |-> "hide_wrappers", value |-> PyBool(TRUE)]>>,
      <<[key |-> "hide_wrappers", value |-> PyBool(FALSE)]>>,
      <<[key |-> "x", value |-> PyInt(10)]>> }
DprintDepths == {1, DefaultDepth}

\* The most frames on the stack.
MaxFrames == 5

\* _print_backtrace(caller_frame, _depth), _depth >= 1: the frames from the
\* caller's outwards, at most _depth of them, printed oldest first after an
\* empty line, a module-level frame as its location and a function's as
\* its location, name and arguments; returns the depth of the last function
\* printed.  stk is the stack up to the caller's frame, outermost first.
print_backtrace(stk, _depth) ==
    LET first     == IF Len(stk) > _depth THEN Len(stk) - _depth + 1 ELSE 1
        collected == first..Len(stk)
        is_module(j) == stk[j].co_name = "<module>"
        module_level_count(j) == Cardinality({l \in collected : l < j /\ is_module(l)})
        args_dict(j) ==
            [n \in {stk[j].arg_names[l] : l \in 1..Len(stk[j].arg_names)} \cap DOMAIN stk[j].f_locals
                |-> stk[j].f_locals[n]]
        entry(j) ==
            IF is_module(j) THEN [line |-> "location", frame |-> j]
            ELSE [line |-> "function", frame |-> j, func_name |-> stk[j].co_name,
                  args_dict |-> args_dict(j), depth |-> (j - first) - module_level_count(j)]
        functions == {j \in collected : ~is_module(j)}
        last      == CHOOSE j \in functions : \A l \in functions : l <= j
    IN  [ stdout |-> <<[line |-> "empty"]>> \o [k \in 1..(Len(stk) - first + 1) |-> entry(first + k - 1)],
          function_depth |-> IF functions = {} THEN 0
                             ELSE (last - first) - module_level_count(last) + 1 ]

\* dprint(**kwargs, _depth=_depth) without positional arguments, called from
\* the innermost frame of stk: the backtrace, then the caller's public
\* locals when no keyword is passed, else a line per keyword.  kwargs holds
\* every keyword of the call but _depth: dprint declares no other.
dprint(stk, kwargs, _depth) ==
    LET bt     == print_backtrace(stk, _depth + 1)
        caller == stk[Len(stk)]
        public == SelectSeq(caller.arg_names, LAMBDA n : ~is_private(n))
    IN  bt.stdout \o
        IF kwargs = <<>>
        THEN [i \in 1..Len(public) |->
                 [line |-> "variable", name |-> public[i],
                  type_name |-> caller.f_locals[public[i]].type,
                  value |-> caller.f_locals[public[i]], depth |-> bt.function_depth]]
        ELSE [i \in 1..Len(kwargs) |->
                 [line |-> "variable", name |-> kwargs[i].key,
                  type_name |-> kwargs[i].value.type,
                  value |-> kwargs[i].value, depth |-> bt.function_depth]]

\* The test module is running; dprint has not been called.
InitDprint ==
    /\ stack = <<ModuleLevel>>
    /\ globals = [m \in Modules |-> EmptyDict]
    /\ func_globals = [f \in {} |-> EmptyDict]
    /\ exc = NoExc
    /\ cli = [op |-> "dprint", called |-> FALSE, frames |-> <<>>, kwargs |-> <<>>,
              _depth |-> DefaultDepth, stdout |-> <<>>]

\* The innermost frame calls a function that is not decorated.
CallFunction(f) ==
    /\ cli.op = "dprint" /\ Len(stack) < MaxFrames
    /\ stack' = Append(stack, BodyFrame(f))
    /\ UNCHANGED <<globals, func_globals, exc, cli>>

\* The innermost frame calls a function decorated with simple_decorator:
\* the wrapper runs and calls the function.
CallDecorated(f) ==
    /\ cli.op = "dprint" /\ Len(stack) + 1 < MaxFrames
    /\ stack' = stack \o <<WrapperFrame(f), BodyFrame(f)>>
    /\ UNCHANGED <<globals, func_globals, exc, cli>>

\* The innermost function returns, and the wrapper that called it with it.
ReturnFrame ==
    /\ cli.op = "dprint" /\ Len(stack) > 1
    /\ stack' = IF stack[Len(stack) - 1].wrapper
                THEN SubSeq(stack, 1, Len(stack) - 2)
                ELSE SubSeq(stack, 1, Len(stack) - 1)
    /\ UNCHANGED <<globals, func_globals, exc, cli>>

\* The innermost frame calls dprint.
Dprint(kwargs, _depth) ==
    /\ cli.op = "dprint"
    /\ cli' = [cli EXCEPT !.called = TRUE, !.frames = stack, !.kwargs = kwargs,
                          !._depth = _depth, !.stdout = dprint(stack, kwargs, _depth)]
    /\ UNCHANGED <<stack, globals, func_globals, exc>>

NextDprint ==
    \/ \E f \in DprintFuncs : CallFunction(f)
    \/ \E f \in DecoratedFuncs : CallDecorated(f)
    \/ ReturnFrame
    \/ \E kwargs \in DprintKwargs, _depth \in DprintDepths : Dprint(kwargs, _depth)

SpecDprint == InitDprint /\ [][NextDprint]_vars

\* dprint was called from a function that a functools.wraps wrapper called,
\* with the keyword hide_wrappers.
CalledFromDecorated ==
    /\ cli.op = "dprint" /\ cli.called
    /\ Len(cli.frames) > 1 /\ cli.frames[Len(cli.frames) - 1].wrapper
    /\ \E i \in 1..Len(cli.kwargs) : cli.kwargs[i].key = "hide_wrappers"

\* The frames the backtrace of the last call of dprint lists.
Listed ==
    {cli.stdout[i].frame : i \in {j \in 1..Len(cli.stdout) : cli.stdout[j].line = "function"}}

\* C22: the backtrace dprint prints from a decorated function lists the
\* frame of that function, and lists the frame of the wrapper exactly when
\* hide_wrappers is not True.
C22_HideWrappersHidesWrapperFrame ==
    CalledFromDecorated =>
        LET hide == \E i \in 1..Len(cli.kwargs) :
                       cli.kwargs[i].key = "hide_wrappers" /\ cli.kwargs[i].value.value
        IN  /\ Len(cli.frames) \in Listed
            /\ (Len(cli.frames) - 1 \in Listed) <=> ~hide

====
